---- MODULE Spec2Model ----
(***************************************************************************)
(* Hyperparameter-optimisation wrappers of the Higgs repository:           *)
(*   mlpipeline/xgb_class.py       class XGBoostModel                      *)
(*   mlpipeline/catboost_class.py  class Ctbclass, H_SPACE, PARAM_GRID     *)
(*                                                                         *)
(* The boosting and optimisation libraries are external: a cross-          *)
(* validation call returns a nondeterministic loss and estimator count or  *)
(* raises, and an optimiser proposes any sample of its search space.       *)
(* Numeric hyperparameters are represented by one sampled value each.      *)
(***************************************************************************)
EXTENDS Integers, Sequences, FiniteSets, TLC

(***************************************************************************)
(* Bounds of the exploration.                                              *)
(***************************************************************************)
\* losses returned by cross-validation range over 1..MaxLoss
MaxLoss == 2
\* max_evals of an XGBoostModel ranges over 1..MaxEvals
MaxEvals == 2
\* estimator counts returned by CatBoost's cross-validation: 1..MaxEst
MaxEst == 2
\* Ctbclass instances constructed one after the other in one process
MaxInstances == 2
\* The trials of a run whose samples are explored choice by choice.
MaxSampledTrials == 2
\* Mean AUC values are the multiples k/AucScale, k in 0..AucScale, and cb.cv
\* returns 1..MaxRounds rounds.
AucScale == 2
MaxRounds == 3
\* The seeds 1..MaxSeed, and the samples other code draws between two seedings.
MaxSeed == 2
MaxDraws == 2

(***************************************************************************)
(* Python values.                                                          *)
(***************************************************************************)
None == <<>>
Some(v) == <<v>>
IsNone(o) == o = <<>>
Val(o) == o[1]

\* d[k] = v, adding the key when it is missing (dict item assignment)
SetItem(d, k, v) == [x \in (DOMAIN d) \cup {k} |-> IF x = k THEN v ELSE d[x]]
\* dict.update(e)
Update(d, e) == [x \in (DOMAIN d) \cup (DOMAIN e) |-> IF x \in DOMAIN e THEN e[x] ELSE d[x]]
EmptyDict == [x \in {} |-> 0]

\* A constructor argument: its Python type and, for numbers, its value.
PyTypes == {"str", "int", "bool", "float"}
PyArg(t, v) == [type |-> t, val |-> v]
\* isinstance(a, int): bool is a subclass of int
IsInstanceInt(a) == a.type \in {"int", "bool"}
\* isinstance(a, bool)
IsInstanceBool(a) == a.type = "bool"
\* type(a) in [str, int]: exact types, a bool is neither
TypeInStrInt(a) == a.type \in {"str", "int"}

OptimizerNames == {"hyperopt", "optuna", "random_search"}

(***************************************************************************)
(* XGBoostModel: search spaces and objectives (xgb_class.py).              *)
(***************************************************************************)
\* hp.choice('max_bin', [2**7, 2**8, 2**9, 2**10])
max_bin_list == {128, 256, 512, 1024}

\* The fixed and numeric entries common to the three search spaces; ratio is
\* self.ratio, computed from the training labels by prepare_data.
xgb_base_params(ratio) ==
  [objective |-> "binary:logistic", eval_metric |-> "logloss", verbosity |-> 1,
   disable_default_eval_metric |-> 1, reg_lambda |-> 1, reg_alpha |-> 0,
   max_delta_step |-> 1, max_depth |-> 1, eta |-> 1, gamma |-> 1,
   subsample |-> 1, min_child_weight |-> 1, colsample_bytree |-> 1,
   colsample_bylevel |-> 1, colsample_bynode |-> 1, scale_pos_weight |-> ratio]

\* hyperopt_params(): the samples of the nested HyperOpt space. The choices
\* 'booster', 'grow_policy' and 'tree_method' evaluate to sub-dictionaries.
hyperopt_grow_policy ==
  {[grow_policy |-> "depthwise"], [grow_policy |-> "lossguide", max_leaves |-> 2]}
hyperopt_booster ==
  {[booster |-> "gbtree"]} \cup
  {[booster |-> "dart", sample_type |-> s, normalize_type |-> n,
    rate_drop |-> 0, skip_drop |-> 0] :
      s \in {"uniform", "weighted"}, n \in {"tree", "forest"}}
hyperopt_tree_method(GPU) ==
  IF GPU
  THEN {[tree_method |-> "gpu_hist", single_precision_histogram |-> a,
         deterministic_histogram |-> b, max_bin |-> m] :
           a \in BOOLEAN, b \in BOOLEAN, m \in max_bin_list}
  ELSE {[tree_method |-> "auto"], [tree_method |-> "exact"]} \cup
       {[tree_method |-> "hist", max_bin |-> m] : m \in max_bin_list} \cup
       {[tree_method |-> "approx", sketch_eps |-> 0]}
hyperopt_params(GPU, ratio) ==
  {Update(xgb_base_params(ratio),
          [booster |-> b, grow_policy |-> g, tree_method |-> t,
           sampling_method |-> "uniform", predictor |-> "cpu_predictor"]) :
     b \in hyperopt_booster, g \in hyperopt_grow_policy,
     t \in hyperopt_tree_method(GPU)}

\* hyperopt_objective that does not copy 'sketch_eps' to the top level.
hyperopt_flatten_without_sketch_eps(space) ==
  LET s1 == IF space.grow_policy.grow_policy = "lossguide"
            THEN SetItem(space, "max_leaves", space.grow_policy.max_leaves)
            ELSE space
      s2 == IF s1.booster.booster = "dart"
            THEN Update(s1, [sample_type |-> s1.booster.sample_type,
                             normalize_type |-> s1.booster.normalize_type,
                             rate_drop |-> s1.booster.rate_drop,
                             skip_drop |-> s1.booster.skip_drop])
            ELSE s1
      s3 == s2
      s4 == IF s3.tree_method.tree_method \notin {"approx", "auto", "exact"}
            THEN SetItem(s3, "max_bin", s3.tree_method.max_bin)
            ELSE s3
      s5 == IF s4.tree_method.tree_method = "gpu_hist"
            THEN Update(s4, [single_precision_histogram |->
                               s4.tree_method.single_precision_histogram,
                             deterministic_histogram |->
                               s4.tree_method.deterministic_histogram,
                             sampling_method |-> "gradient_based",
                             predictor |-> "gpu_predictor"])
            ELSE s4
  IN Update(s5, [grow_policy |-> s5.grow_policy.grow_policy,
                 booster |-> s5.booster.booster,
                 tree_method |-> s5.tree_method.tree_method])

\* hyperopt_objective(space), up to the call of cross_validation: the nested
\* choices are copied to flat keys and then replaced by their names.
hyperopt_flatten(space) ==
  LET s1 == IF space.grow_policy.grow_policy = "lossguide"
            THEN SetItem(space, "max_leaves", space.grow_policy.max_leaves)
            ELSE space
      s2 == IF s1.booster.booster = "dart"
            THEN Update(s1, [sample_type |-> s1.booster.sample_type,
                             normalize_type |-> s1.booster.normalize_type,
                             rate_drop |-> s1.booster.rate_drop,
                             skip_drop |-> s1.booster.skip_drop])
            ELSE s1
      s3 == IF s2.tree_method.tree_method = "approx"
            THEN SetItem(s2, "sketch_eps", s2.tree_method.sketch_eps)
            ELSE s2
      s4 == IF s3.tree_method.tree_method \notin {"approx", "auto", "exact"}
            THEN SetItem(s3, "max_bin", s3.tree_method.max_bin)
            ELSE s3
      s5 == IF s4.tree_method.tree_method = "gpu_hist"
            THEN Update(s4, [single_precision_histogram |->
                               s4.tree_method.single_precision_histogram,
                             deterministic_histogram |->
                               s4.tree_method.deterministic_histogram,
                             sampling_method |-> "gradient_based",
                             predictor |-> "gpu_predictor"])
            ELSE s4
  IN Update(s5, [grow_policy |-> s5.grow_policy.grow_policy,
                 booster |-> s5.booster.booster,
                 tree_method |-> s5.tree_method.tree_method])

\* optuna_objective(trial), up to the call of cross_validation: every
\* dictionary the trial's suggestions can build.
optuna_space(GPU, ratio) ==
  LET tree_method_list == IF GPU THEN {"gpu_hist"}
                          ELSE {"auto", "exact", "approx", "hist"}
      sampling_method == IF GPU THEN "gradient_based" ELSE "uniform"
      predictor == IF GPU THEN "gpu_predictor" ELSE "cpu_predictor"
      base == {Update(xgb_base_params(ratio),
                      [booster |-> b, grow_policy |-> g, tree_method |-> t,
                       sampling_method |-> sampling_method,
                       predictor |-> predictor]) :
                 b \in {"gbtree", "dart"}, g \in {"depthwise", "lossguide"},
                 t \in tree_method_list}
      leaves(S) == {IF s.grow_policy = "lossguide"
                    THEN SetItem(s, "max_leaves", 0) ELSE s : s \in S}
      dart(S) == UNION {IF s.booster = "dart"
                        THEN {Update(s, [sample_type |-> a, normalize_type |-> n,
                                         rate_drop |-> 0, skip_drop |-> 0]) :
                                a \in {"uniform", "weighted"},
                                n \in {"tree", "forest"}}
                        ELSE {s} : s \in S}
      hist(S) == UNION {IF s.tree_method = "hist"
                        THEN {SetItem(s, "max_bin", m) : m \in max_bin_list}
                        ELSE {s} : s \in S}
      approx(S) == {IF s.tree_method = "approx"
                    THEN SetItem(s, "sketch_eps", 0) ELSE s : s \in S}
      gpu(S) == UNION {IF s.tree_method = "gpu_hist"
                       THEN {Update(s, [single_precision_histogram |-> a,
                                        deterministic_histogram |-> b,
                                        max_bin |-> m, subsample |-> 1]) :
                               a \in BOOLEAN, b \in BOOLEAN, m \in max_bin_list}
                       ELSE {s} : s \in S}
  IN gpu(approx(hist(dart(leaves(base)))))

\* random_params() and the loop body of random_search_tuning up to the call
\* of random_objective: param_sample after param_sample.update(param_sam).
random_params(GPU, ratio) ==
  LET tree_method_list == IF GPU THEN {"gpu_hist"}
                          ELSE {"auto", "exact", "approx", "hist"}
  IN {Update(xgb_base_params(ratio),
             [booster |-> b, grow_policy |-> g, tree_method |-> t,
              sampling_method |-> "uniform", predictor |-> "cpu_predictor"]) :
        b \in {"gbtree", "dart"}, g \in {"depthwise", "lossguide"},
        t \in tree_method_list}
\* The loop body without the GPU sampling_method and predictor.
random_param_sam_cpu_predictor(param_sample) ==
  LET leaves == IF param_sample.grow_policy = "lossguide"
                THEN {[max_leaves |-> 0]} ELSE {EmptyDict}
      dart == IF param_sample.booster = "dart"
              THEN {[sample_type |-> a, normalize_type |-> n,
                     rate_drop |-> 0, skip_drop |-> 0] :
                      a \in {"uniform", "weighted"}, n \in {"tree", "forest"}}
              ELSE {EmptyDict}
      hist == IF param_sample.tree_method = "hist"
              THEN {[max_bin |-> m] : m \in max_bin_list} ELSE {EmptyDict}
      approx == IF param_sample.tree_method = "approx"
                THEN {[sketch_eps |-> 0]} ELSE {EmptyDict}
      gpu == IF param_sample.tree_method = "gpu_hist"
             THEN {[max_bin |-> m, single_precision_histogram |-> a,
                    deterministic_histogram |-> b, subsample |-> 1] :
                     m \in max_bin_list, a \in BOOLEAN, b \in BOOLEAN}
             ELSE {EmptyDict}
  IN {Update(Update(Update(Update(l, d), h), a), g) :
        l \in leaves, d \in dart, h \in hist, a \in approx, g \in gpu}
random_param_sam(param_sample) ==
  LET leaves == IF param_sample.grow_policy = "lossguide"
                THEN {[max_leaves |-> 0]} ELSE {EmptyDict}
      dart == IF param_sample.booster = "dart"
              THEN {[sample_type |-> a, normalize_type |-> n,
                     rate_drop |-> 0, skip_drop |-> 0] :
                      a \in {"uniform", "weighted"}, n \in {"tree", "forest"}}
              ELSE {EmptyDict}
      hist == IF param_sample.tree_method = "hist"
              THEN {[max_bin |-> m] : m \in max_bin_list} ELSE {EmptyDict}
      approx == IF param_sample.tree_method = "approx"
                THEN {[sketch_eps |-> 0]} ELSE {EmptyDict}
      gpu == IF param_sample.tree_method = "gpu_hist"
             THEN {[max_bin |-> m, single_precision_histogram |-> a,
                    deterministic_histogram |-> b, subsample |-> 1,
                    sampling_method |-> "gradient_based",
                    predictor |-> "gpu_predictor"] :
                     m \in max_bin_list, a \in BOOLEAN, b \in BOOLEAN}
             ELSE {EmptyDict}
  IN {Update(Update(Update(Update(l, d), h), a), g) :
        l \in leaves, d \in dart, h \in hist, a \in approx, g \in gpu}
random_space(GPU, ratio) ==
  UNION {{Update(s, p) : p \in random_param_sam(s)} : s \in random_params(GPU, ratio)}

(***************************************************************************)
(* XGBoostModel: cross-validation and the trial tables.                    *)
(***************************************************************************)
\* What xgb.cv can return for an instance with num_boost_rounds rounds: the
\* logloss of the last round and the 1-based round of the smallest logloss.
CvResults(num_boost_rounds) ==
  {[loss |-> l, n_estimators |-> n] : l \in 1..MaxLoss, n \in 1..num_boost_rounds}

\* cross_validation(space), cv being what xgb.cv returned: space itself
\* gains the key 'n_estimators' and is the 'params' of the result.
cross_validation(space, cv) ==
  [loss |-> cv.loss, variance |-> 0,
   params |-> SetItem(space, "n_estimators", cv.n_estimators),
   n_estimators |-> cv.n_estimators, time |-> 0]

\* DataFrame.append(results, ignore_index=True): the new row gets the next
\* index label. A table is the sequence of its rows, each with its label.
df_append(df, results) ==
  Append(df, [label |-> Len(df), params |-> results.params, loss |-> results.loss,
              variance |-> results.variance,
              n_estimators |-> results.n_estimators, time |-> results.time])

\* df.sort_values(by='loss', ascending=True): the rows ordered by loss, each
\* keeping its index label.
sort_values(df) ==
  LET n == Len(df)
      \* the position of row i: after the rows of smaller loss and after the
      \* earlier rows of the same loss
      position(i) == 1 + Cardinality({j \in 1..n :
                                       \/ df[j].loss < df[i].loss
                                       \/ df[j].loss = df[i].loss /\ j < i})
  IN [k \in 1..n |-> df[CHOOSE i \in 1..n : position(i) = k]]

\* df.loc[label]: the row carrying that index label.
loc(df, label) == df[CHOOSE i \in 1..Len(df) : df[i].label = label]

\* trials[['params', 'loss']].sort_values(by='loss', ascending=True).loc[0]
\* .to_dict()['params'], the 'best' of the three tuning methods.
best_params(trials) == loc(sort_values(trials), 0).params
\* The same expression before ['params'] is taken: the dictionary of the
\* selected row's two columns.
best_to_dict(trials) ==
  [params |-> loc(sort_values(trials), 0).params,
   loss |-> loc(sort_values(trials), 0).loss]

\* The samples the optimisers propose in the lifecycle exploration: two
\* corners of each search space (the plain one and the one with every
\* conditional key).
Proposed(p) ==
  \/ /\ p.booster = "gbtree" /\ p.grow_policy = "depthwise"
     /\ p.tree_method \in {"auto", "gpu_hist"}
     /\ p.tree_method = "gpu_hist" =>
          /\ p.max_bin = 128
          /\ p.single_precision_histogram /\ p.deterministic_histogram
  \/ /\ p.booster = "dart" /\ p.grow_policy = "lossguide"
     /\ p.sample_type = "weighted" /\ p.normalize_type = "forest"
     /\ p.tree_method \in {"hist", "gpu_hist"}
     /\ p.max_bin = 1024
     /\ p.tree_method = "gpu_hist" =>
          /\ ~p.single_precision_histogram /\ ~p.deterministic_histogram

\* The dictionaries the objectives of the lifecycle exploration pass to
\* cross_validation, by GPU flag and optimiser (self.ratio being 1).
trial_spaces ==
  [g \in BOOLEAN |->
    [hyperopt |-> {p \in {hyperopt_flatten(s) : s \in hyperopt_params(g, 1)} :
                     Proposed(p)},
     optuna |-> {p \in optuna_space(g, 1) : Proposed(p)},
     random_search |-> {p \in random_space(g, 1) : Proposed(p)}]]

\* Every dictionary the objectives can pass to cross_validation, by GPU
\* flag and optimiser (self.ratio being 1).
search_spaces ==
  [g \in BOOLEAN |->
    [hyperopt |-> {hyperopt_flatten(s) : s \in hyperopt_params(g, 1)},
     optuna |-> optuna_space(g, 1),
     random_search |-> random_space(g, 1)]]

(***************************************************************************)
(* XGBoostModel: the instance and its methods.                             *)
(***************************************************************************)
VARIABLES
  xgb,            \* the XGBoostModel instance (None until constructed)
  xgb_pc,         \* where the instance's caller stands
  xgb_flags,      \* the arguments of the last train_models call
  xgb_init_args,  \* the arguments of the last constructor call
  xgb_call,       \* the last method call that returned or raised
  files,          \* the files written so far, by name
  xgb_cv          \* the cross_validation calls of the tuning run in
                  \* progress or last ended: the dictionaries of the calls
                  \* entered and not yet left, and how many were entered

xgb_vars == <<xgb, xgb_pc, xgb_flags, xgb_init_args, xgb_call, files, xgb_cv>>

VARIABLES
  H_SPACE,        \* the module-level HyperOpt space
  PARAM_GRID,     \* the module-level random-search grid
  ctb,            \* the current Ctbclass instance (None until constructed)
  ctb_pc,         \* where the instance's caller stands
  ctb_trials,     \* the trial store of the last run: hyperopt's Trials,
                  \* optuna's study or the random_results table
  ctb_call,       \* the last method call that returned or raised
  ctb_instances,  \* how many instances have been constructed
  ctb_cv          \* the ctb_crossval calls of the run in progress or last
                  \* ended: the dictionaries of the calls entered and not
                  \* yet left, and how many were entered

ctb_vars == <<H_SPACE, PARAM_GRID, ctb, ctb_pc, ctb_trials, ctb_call,
              ctb_instances, ctb_cv>>

\* No call in progress and none entered.
\* The module random, which both classes import: its generator is a
\* function of the last seed and of the samples drawn since. searches are
\* the runs of random_search_tuning made so far, each with its instance's
\* attributes and the dictionaries it passed to cross_validation.
VARIABLES rnd, searches
random_vars == <<rnd, searches>>

NoCalls == [in_progress |-> <<>>, calls |-> 0]
\* A call entered with the dictionary d, and the innermost call left.
Entered(cv, d) == [in_progress |-> Append(cv.in_progress, d), calls |-> cv.calls + 1]
Left(cv) == [cv EXCEPT !.in_progress = SubSeq(@, 1, Len(@) - 1)]
\* A call entered and left within one step.
EnteredAndLeft(cv) == [cv EXCEPT !.calls = @ + 1]

Self == Val(xgb)
Returned(name) == [name |-> name, exc |-> "none"]
\* A call that returned a value.
ReturnedValue(name, value) == [name |-> name, exc |-> "none", value |-> value]
Raised(name, exc) == [name |-> name, exc |-> exc]

ArgNames == {"target_feature", "max_evals", "n_fold", "num_boost_rounds",
             "early_stopping_rounds", "seed", "GPU"}
\* Every typing of the constructor's arguments.
CtorArgs == [ArgNames -> {PyArg(t, 1) : t \in PyTypes}]
\* The well-typed arguments of the instances whose lifecycle is explored.
LifecycleArgs ==
  {[target_feature |-> PyArg("str", 0), max_evals |-> PyArg("int", m),
    n_fold |-> PyArg("int", 1), num_boost_rounds |-> PyArg("int", 1),
    early_stopping_rounds |-> PyArg("int", 1), seed |-> PyArg("int", 1),
    GPU |-> PyArg("bool", g)] :
      m \in 1..MaxEvals, g \in {0, 1}}

\* Type checks that leave seed unchecked.
init_raises_seed_unchecked(a) ==
  \/ ~TypeInStrInt(a.target_feature)
  \/ ~IsInstanceInt(a.max_evals)
  \/ ~IsInstanceInt(a.n_fold)
  \/ ~IsInstanceInt(a.num_boost_rounds)
  \/ ~IsInstanceInt(a.early_stopping_rounds)
  \/ ~IsInstanceBool(a.GPU)

\* The type checks of __init__: TRUE when one of them raises TypeError.
init_raises(a) ==
  \/ ~TypeInStrInt(a.target_feature)
  \/ ~IsInstanceInt(a.max_evals)
  \/ ~IsInstanceInt(a.n_fold)
  \/ ~IsInstanceInt(a.num_boost_rounds)
  \/ ~IsInstanceInt(a.early_stopping_rounds)
  \/ ~IsInstanceInt(a.seed)
  \/ ~IsInstanceBool(a.GPU)

\* The attributes __init__ sets. Attributes that a later method creates
\* (ratio, the trial tables, best_optuna_params, best_random_search_params)
\* are carried as None or as an empty table until then.
init_attributes(a) ==
  [max_evals |-> a.max_evals.val, nfold |-> a.n_fold.val,
   num_boost_rounds |-> a.num_boost_rounds.val,
   early_stopping_rounds |-> a.early_stopping_rounds.val,
   target_feature |-> a.target_feature,
   best_hyperopt_params |-> None, optuna_params |-> None,
   random_search_params |-> None, best_hyperopt_model |-> None,
   best_optuna_model |-> None, best_random_search_model |-> None,
   output |-> None, seed |-> a.seed.val, GPU |-> (a.GPU.val = 1),
   trained |-> FALSE, tested |-> FALSE,
   ratio |-> None, best_optuna_params |-> None,
   best_random_search_params |-> None,
   hyperopt_trials |-> <<>>, optuna_trials |-> <<>>,
   random_search_trials |-> <<>>]

XgbInit ==
  /\ xgb = None
  /\ xgb_pc = "no_instance"
  /\ xgb_flags = None
  /\ xgb_init_args = None
  /\ xgb_call = Returned("import")
  /\ files = EmptyDict
  /\ xgb_cv = NoCalls

\* XGBoostModel(train, test, target_feature, ..., GPU)
XGBoostModel_init(a) ==
  /\ xgb_pc = "no_instance"
  /\ xgb_init_args' = Some(a)
  /\ IF init_raises(a)
     THEN /\ xgb_call' = Raised("__init__", "TypeError")
          /\ xgb_pc' = "TypeError"
          /\ UNCHANGED xgb
     ELSE /\ xgb_call' = Returned("__init__")
          /\ xgb' = Some(init_attributes(a))
          /\ xgb_pc' = "idle"
  /\ UNCHANGED <<xgb_flags, files>>
  /\ UNCHANGED xgb_cv
  /\ UNCHANGED <<ctb_vars, random_vars>>

\* train_models(hyperopt, optuna, random_search), up to the first `if`:
\* random.seed, prepare_data (which sets ratio) and self.output = {}.
\* The exploration calls it once per instance.
train_models(hyperopt, optuna, random_search) ==
  /\ xgb_pc = "idle"
  /\ IsNone(Self.output)
  /\ xgb' = Some([Self EXCEPT !.ratio = Some(1), !.output = Some(EmptyDict)])
  /\ xgb_flags' = Some([hyperopt |-> hyperopt, optuna |-> optuna,
                        random_search |-> random_search])
  /\ xgb_pc' = "if hyperopt"
  /\ UNCHANGED <<xgb_init_args, xgb_call, files>>
  /\ UNCHANGED xgb_cv
  /\ UNCHANGED <<ctb_vars, random_vars>>

\* self.output[name] = {'params': ..., 'model': ...} of train_models
output_entry(output, name, params, model) ==
  Some(SetItem(Val(output), name, [params |-> params, model |-> model]))

\* hyperopt_tuning(), up to the call of fmin: the empty trial table.
hyperopt_tuning_begin ==
  /\ xgb_pc = "if hyperopt"
  /\ IF Val(xgb_flags).hyperopt
     THEN /\ xgb' = Some([Self EXCEPT !.hyperopt_trials = <<>>])
          /\ xgb_cv' = NoCalls
          /\ xgb_pc' = "fmin"
     ELSE /\ xgb_pc' = "if optuna"
          /\ UNCHANGED <<xgb, xgb_cv>>
  /\ UNCHANGED <<xgb_flags, xgb_init_args, xgb_call, files>>
  /\ UNCHANGED <<ctb_vars, random_vars>>

\* One evaluation of hyperopt_objective by fmin.
hyperopt_objective ==
  /\ xgb_pc = "fmin"
  /\ Len(Self.hyperopt_trials) < Self.max_evals
  /\ \E space \in trial_spaces[Self.GPU].hyperopt,
        cv \in CvResults(Self.num_boost_rounds) :
       /\ LET results == cross_validation(space, cv)
          IN xgb' = Some([Self EXCEPT !.hyperopt_trials = df_append(@, results)])
  /\ UNCHANGED <<xgb_pc, xgb_flags, xgb_init_args, xgb_call, files>>
  /\ xgb_cv' = EnteredAndLeft(xgb_cv)
  /\ UNCHANGED <<ctb_vars, random_vars>>

\* hyperopt_tuning() after fmin returned: the table is written to its CSV
\* file and the best parameters are stored and returned; then the lines of
\* train_models that record them in output.
hyperopt_tuning_end ==
  /\ xgb_pc = "fmin"
  /\ Len(Self.hyperopt_trials) = Self.max_evals
  /\ files' = SetItem(files, "XGBoost_trials/hyperopt_trials.csv",
                      Self.hyperopt_trials)
  /\ LET best == best_params(Self.hyperopt_trials)
     IN xgb' = Some([Self EXCEPT
                      !.best_hyperopt_params = Some(best),
                      !.output = output_entry(@, "hyperopt", Some(best),
                                              Self.best_hyperopt_model)])
        /\ xgb_call' = ReturnedValue("hyperopt_tuning", best)
  /\ xgb_pc' = "if optuna"
  /\ UNCHANGED <<xgb_flags, xgb_init_args>>
  /\ UNCHANGED xgb_cv
  /\ UNCHANGED <<ctb_vars, random_vars>>

\* optuna_tuning(), up to the call of study.optimize: the empty trial table,
\* which is written to its CSV file at once.
optuna_tuning_begin ==
  /\ xgb_pc = "if optuna"
  /\ IF Val(xgb_flags).optuna
     THEN /\ xgb' = Some([Self EXCEPT !.optuna_trials = <<>>])
          /\ xgb_cv' = NoCalls
          /\ files' = SetItem(files, "XGBoost_trials/optuna_trials.csv", <<>>)
          /\ xgb_pc' = "study.optimize"
     ELSE /\ xgb_pc' = "if random_search"
          /\ UNCHANGED <<xgb, files, xgb_cv>>
  /\ UNCHANGED <<xgb_flags, xgb_init_args, xgb_call>>
  /\ UNCHANGED <<ctb_vars, random_vars>>

\* One evaluation of optuna_objective by study.optimize.
optuna_objective ==
  /\ xgb_pc = "study.optimize"
  /\ Len(Self.optuna_trials) < Self.max_evals
  /\ \E space \in trial_spaces[Self.GPU].optuna,
        cv \in CvResults(Self.num_boost_rounds) :
       /\ LET results == cross_validation(space, cv)
          IN xgb' = Some([Self EXCEPT !.optuna_trials = df_append(@, results)])
  /\ UNCHANGED <<xgb_pc, xgb_flags, xgb_init_args, xgb_call, files>>
  /\ xgb_cv' = EnteredAndLeft(xgb_cv)
  /\ UNCHANGED <<ctb_vars, random_vars>>

\* optuna_tuning() after study.optimize returned, and the lines of
\* train_models that record the best parameters in output.
optuna_tuning_end ==
  /\ xgb_pc = "study.optimize"
  /\ Len(Self.optuna_trials) = Self.max_evals
  /\ LET best == best_params(Self.optuna_trials)
     IN xgb' = Some([Self EXCEPT
                      !.best_optuna_params = Some(best),
                      !.output = output_entry(@, "optuna", Some(best),
                                              Self.best_optuna_model)])
        /\ xgb_call' = ReturnedValue("optuna_tuning", best)
  /\ xgb_pc' = "if random_search"
  /\ UNCHANGED <<xgb_flags, xgb_init_args, files>>
  /\ UNCHANGED xgb_cv
  /\ UNCHANGED <<ctb_vars, random_vars>>

\* random_search_tuning(), up to its loop: the empty trial table.
random_search_tuning_begin ==
  /\ xgb_pc = "if random_search"
  /\ IF Val(xgb_flags).random_search
     THEN /\ xgb' = Some([Self EXCEPT !.random_search_trials = <<>>])
          /\ xgb_cv' = NoCalls
          /\ xgb_pc' = "for i in range(max_evals)"
     ELSE /\ xgb_pc' = "for i in output"
          /\ UNCHANGED <<xgb, xgb_cv>>
  /\ UNCHANGED <<xgb_flags, xgb_init_args, xgb_call, files>>
  /\ UNCHANGED <<ctb_vars, random_vars>>

\* One iteration of the loop of random_search_tuning: the sample and
\* random_objective(param_sample).
random_objective ==
  /\ xgb_pc = "for i in range(max_evals)"
  /\ Len(Self.random_search_trials) < Self.max_evals
  /\ \E space \in trial_spaces[Self.GPU].random_search,
        cv \in CvResults(Self.num_boost_rounds) :
       /\ LET results == cross_validation(space, cv)
          IN xgb' = Some([Self EXCEPT
                           !.random_search_trials = df_append(@, results)])
  /\ UNCHANGED <<xgb_pc, xgb_flags, xgb_init_args, xgb_call, files>>
  /\ xgb_cv' = EnteredAndLeft(xgb_cv)
  /\ UNCHANGED <<ctb_vars, random_vars>>

\* random_search_tuning() after its loop, which returns the dictionary of
\* the selected row (params and loss), and the lines of train_models that
\* record the best parameters in output.
random_search_tuning_end ==
  /\ xgb_pc = "for i in range(max_evals)"
  /\ Len(Self.random_search_trials) = Self.max_evals
  /\ files' = SetItem(files, "XGBoost_trials/random_search_trials.csv",
                      Self.random_search_trials)
  /\ LET best == best_params(Self.random_search_trials)
     IN xgb' = Some([Self EXCEPT
                      !.best_random_search_params = Some(best),
                      !.output = output_entry(@, "random_search", Some(best),
                                              Self.best_random_search_model)])
        /\ xgb_call' = ReturnedValue("random_search_tuning",
                                     best_to_dict(Self.random_search_trials))
  /\ xgb_pc' = "for i in output"
  /\ UNCHANGED <<xgb_flags, xgb_init_args>>
  /\ UNCHANGED xgb_cv
  /\ UNCHANGED <<ctb_vars, random_vars>>

\* xgb.train(params, self.dtrain): the model trained from params.
xgb_train(params) == [trained_from |-> params]

\* The last loop of train_models: a model is trained from each entry's
\* params, pickled and stored in the entry; then trained = True.
train_models_end ==
  /\ xgb_pc = "for i in output"
  /\ LET out == Val(Self.output)
         trained_out == [i \in DOMAIN out |->
                           SetItem(out[i], "model",
                                   Some(xgb_train(Val(out[i].params))))]
     IN /\ xgb' = Some([Self EXCEPT !.output = Some(trained_out),
                                    !.trained = TRUE])
        /\ files' = Update(files,
                           [f \in {"XGBoost_" \o i \o "_model.dat" : i \in DOMAIN out}
                              |-> "pickle"])
  /\ xgb_pc' = "idle"
  /\ xgb_call' = Returned("train_models")
  /\ UNCHANGED <<xgb_flags, xgb_init_args>>
  /\ UNCHANGED xgb_cv
  /\ UNCHANGED <<ctb_vars, random_vars>>

\* xgb.cv raises inside a trial: nothing in the tuning methods or in
\* train_models catches it, so train_models ends there.
cross_validation_raises ==
  /\ \/ xgb_pc = "fmin" /\ Len(Self.hyperopt_trials) < Self.max_evals
     \/ xgb_pc = "study.optimize" /\ Len(Self.optuna_trials) < Self.max_evals
     \/ /\ xgb_pc = "for i in range(max_evals)"
        /\ Len(Self.random_search_trials) < Self.max_evals
  /\ xgb_pc' = "idle"
  /\ xgb_call' = Raised("train_models", "XGBoostError")
  /\ UNCHANGED <<xgb, xgb_flags, xgb_init_args, files>>
  /\ xgb_cv' = EnteredAndLeft(xgb_cv)
  /\ UNCHANGED <<ctb_vars, random_vars>>

\* A test_models that does not look at trained: it marks the instance
\* tested and returns.
test_models_unguarded ==
  /\ xgb_pc = "idle"
  /\ xgb' = Some([Self EXCEPT !.tested = TRUE])
  /\ xgb_call' = Returned("test_models")
  /\ UNCHANGED <<xgb_pc, xgb_flags, xgb_init_args, files>>
  /\ UNCHANGED xgb_cv
  /\ UNCHANGED <<ctb_vars, random_vars>>

\* test_models()
test_models ==
  /\ xgb_pc = "idle"
  /\ IF Self.trained = FALSE
     THEN /\ xgb_call' = Raised("test_models", "Exception")
          /\ UNCHANGED <<xgb, files>>
     ELSE /\ LET out == Val(Self.output)
                 scored == [i \in DOMAIN out |->
                              Update(out[i], [prediction |-> "predict",
                                              score |-> "log_loss"])]
             IN xgb' = Some([Self EXCEPT !.output = Some(scored),
                                         !.tested = TRUE])
          /\ files' = SetItem(files, "XGBoost_Summary.csv", "summary")
          /\ xgb_call' = Returned("test_models")
  /\ UNCHANGED <<xgb_pc, xgb_flags, xgb_init_args>>
  /\ UNCHANGED xgb_cv
  /\ UNCHANGED <<ctb_vars, random_vars>>

SupportedImportanceTypes ==
  {"weight", "gain", "cover", "total_gain", "total_cover", "shap"}
\* The importance types the exploration passes: two supported ones and one
\* that is not.
ImportanceTypes == {"gain", "shap", "permutation"}

\* feature_importance(importance_type). The 'shap' branch reads
\* self.x_train, an attribute no method of the class sets.
feature_importance(importance_type) ==
  /\ xgb_pc = "idle"
  /\ IF importance_type \notin SupportedImportanceTypes
     THEN /\ xgb_call' = Raised("feature_importance", "ValueError")
          /\ UNCHANGED <<xgb, files>>
     ELSE IF Self.trained = FALSE
     THEN /\ xgb_call' = Raised("feature_importance", "Exception")
          /\ UNCHANGED <<xgb, files>>
     ELSE LET out == Val(Self.output)
          IN IF importance_type = "shap"
             THEN /\ xgb_call' =
                       IF \E i \in DOMAIN out : Val(out[i].params).booster = "gbtree"
                       THEN Raised("feature_importance", "AttributeError")
                       ELSE Returned("feature_importance")
                  /\ UNCHANGED <<xgb, files>>
             ELSE /\ xgb' = Some([Self EXCEPT !.output = Some(
                            [i \in DOMAIN out |->
                               SetItem(out[i], "feature_importance",
                                       importance_type)])])
                  /\ files' = Update(files,
                       [f \in {"XGBoost_Plots/XGBoost_" \o i \o "_FeatureImportance.png" :
                                 i \in DOMAIN out} |-> "plot"])
                  /\ xgb_call' = Returned("feature_importance")
  /\ UNCHANGED <<xgb_pc, xgb_flags, xgb_init_args>>
  /\ UNCHANGED xgb_cv
  /\ UNCHANGED <<ctb_vars, random_vars>>


(***************************************************************************)
(* Ctbclass: the module-level search spaces (catboost_class.py).           *)
(* A search space maps each parameter to the list of options of its        *)
(* choice; a numeric distribution is the list of one sampled value, a      *)
(* constant the list of that constant.                                     *)
(***************************************************************************)
\* MAX_EVALS = 5
MAX_EVALS == 5

\* PARAM_GRID as the module declares it
PARAM_GRID_declared ==
  [l2_leaf_reg |-> <<0, 1>>, learning_rate |-> <<1>>, depth |-> <<1>>,
   loss_function |-> <<"Logloss">>, border_count |-> <<32>>,
   bootstrap_type |-> <<"Bayesian", "Bernoulli">>,
   grow_policy |-> <<"SymmetricTree", "Depthwise", "Lossguide">>,
   custom_loss |-> <<"AUC", "F1", "TotalF1", "CrossEntropy", "Logloss">>,
   score_function |-> <<"Cosine", "L2">>, eval_metric |-> <<"AUC">>,
   min_data_in_leaf |-> <<1>>, od_type |-> <<"IncToDec", "Iter">>,
   task_type |-> <<"CPU">>,
   leaf_estimation_backtracking |-> <<"No", "AnyImprovement">>]

\* H_SPACE as the module declares it; the choices 'bootstrap_type' and
\* 'grow_policy' have sub-dictionaries as options.
H_SPACE_declared ==
  [l2_leaf_reg |-> <<1>>, learning_rate |-> <<1>>, depth |-> <<1>>,
   loss_function |-> <<"Logloss">>, border_count |-> <<32>>,
   bootstrap_type |-> <<[bootstrap_type |-> "Bayesian", bagging_temperature |-> 1],
                        [bootstrap_type |-> "Bernoulli"]>>,
   grow_policy |-> <<[grow_policy |-> "SymmetricTree"],
                     [grow_policy |-> "Depthwise"],
                     [grow_policy |-> "Lossguide", max_leaves |-> 2]>>,
   custom_loss |-> <<"AUC", "F1", "TotalF1", "CrossEntropy", "Logloss">>,
   score_function |-> <<"Cosine", "L2">>, eval_metric |-> <<"AUC">>,
   min_data_in_leaf |-> <<1>>, od_type |-> <<"IncToDec", "Iter">>,
   task_type |-> <<"CPU">>,
   leaf_estimation_backtracking |-> <<"No", "AnyImprovement">>]

\* The space.update(...) calls of hyperopt_space. space is H_SPACE itself,
\* not a copy.
hyperopt_space_update(space, GPU, lossguide_verifier) ==
  LET s1 == IF GPU = FALSE
            THEN Update(space, [rsm |-> <<1>>, random_strength |-> <<1>>])
            ELSE space
      s2 == IF GPU = TRUE
            THEN Update(s1, [leaf_estimation_backtracking |->
                               <<"Armijo", "No", "AnyImprovement">>])
            ELSE s1
      s3 == IF lossguide_verifier = TRUE /\ GPU = TRUE
            THEN Update(s2, [score_function |->
                               <<"L2", "SolarL2", "LOOL2", "NewtonL2">>,
                             thread_count |-> <<2>>])
            ELSE s2
  IN IF lossguide_verifier = FALSE /\ GPU = TRUE
     THEN Update(s3, [score_function |->
                        <<"Cosine", "L2", "SolarL2", "LOOL2", "NewtonL2">>,
                      thread_count |-> <<2>>])
     ELSE s3

\* The space.update(...) calls of random_space. space is PARAM_GRID itself.
random_space_update(space, GPU, lossguide_verifier) ==
  LET s1 == IF GPU = FALSE
            THEN Update(space, [rsm |-> <<1>>, random_strength |-> <<1>>])
            ELSE space
      s2 == IF GPU = TRUE
            THEN Update(s1, [leaf_estimation_backtracking |->
                               <<"Armijo", "No", "AnyImprovement">>,
                             thread_count |-> <<2>>])
            ELSE s1
      s3 == IF lossguide_verifier = TRUE /\ GPU = TRUE
            THEN Update(s2, [score_function |->
                               <<"L2", "SolarL2", "LOOL2", "NewtonL2">>])
            ELSE s2
  IN IF lossguide_verifier = FALSE /\ GPU = TRUE
     THEN Update(s3, [score_function |->
                        <<"Cosine", "L2", "SolarL2", "LOOL2", "NewtonL2">>])
     ELSE s3

\* The lists optuna_obj builds its suggestions from.
optuna_lists(GPU) ==
  LET by_gpu == IF GPU = FALSE
                THEN [score_function |-> <<"Cosine", "L2">>,
                      task_type |-> <<"CPU">>,
                      leaf_estimation_backtracking |-> <<"No", "AnyImprovement">>,
                      grow_policy |-> <<"SymmetricTree", "Depthwise", "Lossguide">>]
                ELSE [score_function |->
                        <<"L2", "SolarL2", "LOOL2", "NewtonL2", "Cosine">>,
                      task_type |-> <<"GPU">>,
                      leaf_estimation_backtracking |->
                        <<"Armijo", "No", "AnyImprovement">>,
                      grow_policy |-> <<"SymmetricTree", "Depthwise", "Lossguide">>]
  IN Update([l2_leaf_reg |-> <<1>>, learning_rate |-> <<1>>, depth |-> <<1>>,
             loss_function |-> <<"Logloss", "CrossEntropy">>,
             border_count |-> <<32>>,
             bootstrap_type |-> <<"Bayesian", "Bernoulli">>,
             eval_metric |-> <<"AUC">>, min_data_in_leaf |-> <<1>>,
             od_type |-> <<"IncToDec", "Iter">>], by_gpu)

\* The samples the optimisers propose in the exploration: every choice takes
\* its first option, or every choice takes its last option.
Picks == {"first", "last"}
sample(space, pick) ==
  [k \in DOMAIN space |->
     IF pick = "first" THEN space[k][1] ELSE space[k][Len(space[k])]]

\* The samples in which the choices that the objectives couple are drawn
\* independently: each of them takes its first or its last option, every
\* other parameter its first.
CoupledKeys == {"bootstrap_type", "grow_policy", "score_function"}
Choices == [CoupledKeys -> Picks]
sample_choice(space, choice) ==
  [k \in DOMAIN space |->
     IF k \in CoupledKeys /\ choice[k] = "last"
     THEN space[k][Len(space[k])] ELSE space[k][1]]

\* hyperopt_obj that leaves 'bagging_temperature' inside the sampled option.
hyperopt_obj_params_nested_temperature(params, GPU) ==
  LET p1 == IF GPU = TRUE THEN SetItem(params, "task_type", "GPU") ELSE params
      p2 == SetItem(p1, "bootstrap_type", p1.bootstrap_type.bootstrap_type)
      p3 == IF p2.grow_policy.grow_policy = "Lossguide"
            THEN LET q == Update(p2, [max_leaves |-> p2.grow_policy.max_leaves,
                                      grow_policy |-> p2.grow_policy.grow_policy])
                 IN IF GPU = FALSE THEN SetItem(q, "score_function", "L2") ELSE q
            ELSE SetItem(p2, "grow_policy", p2.grow_policy.grow_policy)
  IN IF GPU = FALSE THEN SetItem(p3, "taks_type", "CPU") ELSE p3

\* hyperopt_obj(params), up to the call of ctb_crossval.
hyperopt_obj_params(params, GPU) ==
  LET p1 == IF GPU = TRUE THEN SetItem(params, "task_type", "GPU") ELSE params
      p2 == IF p1.bootstrap_type.bootstrap_type = "Bayesian"
            THEN Update(p1, [bagging_temperature |->
                               p1.bootstrap_type.bagging_temperature,
                             bootstrap_type |-> p1.bootstrap_type.bootstrap_type])
            ELSE SetItem(p1, "bootstrap_type", p1.bootstrap_type.bootstrap_type)
      p3 == IF p2.grow_policy.grow_policy = "Lossguide"
            THEN LET q == Update(p2, [max_leaves |-> p2.grow_policy.max_leaves,
                                      grow_policy |-> p2.grow_policy.grow_policy])
                 IN IF GPU = FALSE THEN SetItem(q, "score_function", "L2") ELSE q
            ELSE SetItem(p2, "grow_policy", p2.grow_policy.grow_policy)
  IN IF GPU = FALSE THEN SetItem(p3, "taks_type", "CPU") ELSE p3

\* optuna_obj(trial), up to the call of ctb_crossval.
optuna_obj_suggested(p0, GPU) ==
  LET p1 == IF GPU = FALSE
            THEN Update(p0, [random_strength |-> 1, rsm |-> 1]) ELSE p0
      p2 == IF p1.grow_policy = "Lossguide"
            THEN SetItem(p1, "max_leaves", 2) ELSE p1
  IN IF p2.bootstrap_type = "Bayesian"
     THEN SetItem(p2, "bagging_temperature", 1) ELSE p2
\* optuna_obj with the suggestions of one pick.
optuna_obj_params(pick, GPU) ==
  optuna_obj_suggested(sample(optuna_lists(GPU), pick), GPU)

\* randomsrch_obj(params, iteration), up to the call of ctb_crossval.
randomsrch_obj_params(params, GPU) ==
  LET p1 == SetItem(params, "task_type", IF GPU = TRUE THEN "GPU" ELSE "CPU")
      p2 == IF p1.bootstrap_type = "Bayesian"
            THEN SetItem(p1, "bagging_temperature", 1) ELSE p1
  IN IF p2.grow_policy = "Lossguide"
     THEN LET q == SetItem(p2, "max_leaves", 2)
          IN IF GPU = FALSE THEN SetItem(q, "score_function", "L2") ELSE q
     ELSE p2

\* hyperopt_obj and randomsrch_obj set self.lossguide_verifier when a GPU
\* trial grows its trees by 'Lossguide'.
verifier_after(lossguide_verifier, params, GPU) ==
  IF params.grow_policy = "Lossguide" /\ GPU # FALSE
  THEN TRUE ELSE lossguide_verifier

\* What cb.cv can return: loss is 1 - max(test-AUC-mean) and n_estimators
\* the 1-based round of that maximum.
CtbCvResults ==
  {[loss |-> l, n_estimators |-> n] : l \in 1..MaxLoss, n \in 1..MaxEst}
\* One cross-validation result, for the exploration of instance sequences.
CtbOneCvResult == {[loss |-> 1, n_estimators |-> 1]}


(***************************************************************************)
(* Ctbclass: the instance and its methods.                                 *)
(***************************************************************************)
Ctb == Val(ctb)
CtbReturned(name, value) == [name |-> name, exc |-> "none", value |-> value]
CtbRaised(name, exc) == [name |-> name, exc |-> exc, value |-> "none"]

SupportedMethods == {"hyperopt", "optuna", "random_search"}
\* The optimization_method values the exploration passes: the supported
\* ones and one that is not.
Methods == SupportedMethods \cup {"grid_search"}

CtbInit ==
  /\ H_SPACE = H_SPACE_declared
  /\ PARAM_GRID = PARAM_GRID_declared
  /\ ctb = None
  /\ ctb_pc = "no_instance"
  /\ ctb_trials = <<>>
  /\ ctb_call = CtbReturned("import", "None")
  /\ ctb_instances = 0
  /\ ctb_cv = NoCalls

\* Ctbclass(x_train, y_train, optimization_method, lossguide_verifier, GPU).
\* iteration is the class attribute 0; estimator and params do not exist
\* until a method sets them and are carried as None until then.
Ctbclass_init(optimization_method, lossguide_verifier, GPU) ==
  /\ ctb_pc \in {"no_instance", "idle"}
  /\ ctb' = Some([GPU |-> GPU, optimization_method |-> optimization_method,
                  lossguide_verifier |-> lossguide_verifier,
                  iteration |-> 0, estimator |-> None, params |-> None])
  /\ ctb_pc' = "idle"
  /\ ctb_call' = CtbReturned("__init__", "None")
  /\ ctb_instances' = ctb_instances + 1
  /\ UNCHANGED <<H_SPACE, PARAM_GRID, ctb_trials>>
  /\ UNCHANGED ctb_cv
  /\ UNCHANGED <<xgb_vars, random_vars>>

\* train() with an optimization_method that none of its three tests
\* matches: it falls off the end.
train_no_method ==
  /\ ctb_pc = "idle"
  /\ Ctb.optimization_method \notin SupportedMethods
  /\ ctb_call' = CtbReturned("train", "None")
  /\ UNCHANGED <<H_SPACE, PARAM_GRID, ctb, ctb_pc, ctb_trials, ctb_instances>>
  /\ UNCHANGED ctb_cv
  /\ UNCHANGED <<xgb_vars, random_vars>>

\* train() -> hyperopt_space(), up to the call of fmin. The exploration
\* calls train() once per instance.
hyperopt_space_begin ==
  /\ ctb_pc = "idle"
  /\ Ctb.optimization_method = "hyperopt"
  /\ Ctb.iteration = 0
  /\ H_SPACE' = hyperopt_space_update(H_SPACE, Ctb.GPU, Ctb.lossguide_verifier)
  /\ ctb_trials' = <<>>
  /\ ctb_pc' = "fmin"
  /\ UNCHANGED <<PARAM_GRID, ctb, ctb_call, ctb_instances>>
  /\ ctb_cv' = NoCalls
  /\ UNCHANGED <<xgb_vars, random_vars>>

\* ctb_crossval(params, optim_type), cv being what cb.cv returned.
ctb_crossval(params, cv) ==
  [loss |-> cv.loss, params |-> params, n_estimators |-> cv.n_estimators,
   run_time |-> 0]

\* One evaluation of hyperopt_obj by fmin.
hyperopt_obj(cvs) ==
  /\ ctb_pc = "fmin"
  /\ Len(ctb_trials) < MAX_EVALS
  /\ \E pick \in Picks, cv \in cvs :
       LET params == hyperopt_obj_params(sample(H_SPACE, pick), Ctb.GPU)
           r == ctb_crossval(params, cv)
       IN /\ ctb' = Some([Ctb EXCEPT
                           !.iteration = @ + 1,
                           !.lossguide_verifier = verifier_after(@, params, Ctb.GPU),
                           !.estimator = Some(r.n_estimators)])
          /\ ctb_trials' = Append(ctb_trials,
                             [loss |-> r.loss, params |-> r.params,
                              iteration |-> Ctb.iteration + 1,
                              estimators |-> r.n_estimators,
                              train_time |-> r.run_time, status |-> "ok"])
  /\ UNCHANGED <<H_SPACE, PARAM_GRID, ctb_pc, ctb_call, ctb_instances>>
  /\ ctb_cv' = EnteredAndLeft(ctb_cv)
  /\ UNCHANGED <<xgb_vars, random_vars>>

\* trials.best_trial / study.best_trial: the first trial of smallest loss.
best_trial(trials) ==
  trials[CHOOSE i \in 1..Len(trials) :
           \A j \in 1..Len(trials) :
             /\ trials[i].loss <= trials[j].loss
             /\ j < i => trials[j].loss > trials[i].loss]

\* self.params['n_estimators'] = self.estimator
with_estimator(params, estimator) == SetItem(params, "n_estimators", Val(estimator))

\* hyperopt_space() after fmin returned.
hyperopt_space_end ==
  /\ ctb_pc = "fmin"
  /\ Len(ctb_trials) = MAX_EVALS
  /\ ctb' = Some([Ctb EXCEPT !.params =
                   Some(with_estimator(best_trial(ctb_trials).params, Ctb.estimator))])
  /\ ctb_pc' = "idle"
  /\ ctb_call' = CtbReturned("train", "trials, params")
  /\ UNCHANGED <<H_SPACE, PARAM_GRID, ctb_trials, ctb_instances>>
  /\ UNCHANGED ctb_cv
  /\ UNCHANGED <<xgb_vars, random_vars>>

\* cb.cv raises inside hyperopt_obj: fmin lets it through and the except
\* clause of hyperopt_space returns a dictionary.
hyperopt_obj_raises ==
  /\ ctb_pc = "fmin"
  /\ Len(ctb_trials) < MAX_EVALS
  /\ \E pick \in Picks :
       LET params == hyperopt_obj_params(sample(H_SPACE, pick), Ctb.GPU)
       IN ctb' = Some([Ctb EXCEPT
                        !.iteration = @ + 1,
                        !.lossguide_verifier = verifier_after(@, params, Ctb.GPU)])
  /\ ctb_pc' = "idle"
  /\ ctb_call' = CtbReturned("train", "{'status': 'fail', 'exception': ...}")
  /\ UNCHANGED <<H_SPACE, PARAM_GRID, ctb_trials, ctb_instances>>
  /\ ctb_cv' = EnteredAndLeft(ctb_cv)
  /\ UNCHANGED <<xgb_vars, random_vars>>

\* train() -> optuna_space(), up to the call of study.optimize.
optuna_space_begin ==
  /\ ctb_pc = "idle"
  /\ Ctb.optimization_method = "optuna"
  /\ Ctb.iteration = 0
  /\ ctb_trials' = <<>>
  /\ ctb_pc' = "study.optimize"
  /\ UNCHANGED <<H_SPACE, PARAM_GRID, ctb, ctb_call, ctb_instances>>
  /\ ctb_cv' = NoCalls
  /\ UNCHANGED <<xgb_vars, random_vars>>

\* One evaluation of optuna_obj by study.optimize; the study records the
\* suggested parameters and the returned loss. optuna_obj drops the
\* n_estimators that ctb_crossval returned; the record keeps it as
\* 'estimators', which no action reads.
optuna_obj(cvs) ==
  /\ ctb_pc = "study.optimize"
  /\ Len(ctb_trials) < MAX_EVALS
  /\ \E pick \in Picks, cv \in cvs :
       LET r == ctb_crossval(optuna_obj_params(pick, Ctb.GPU), cv)
       IN /\ ctb' = Some([Ctb EXCEPT !.iteration = @ + 1,
                                     !.estimator = Some(r.n_estimators)])
          /\ ctb_trials' = Append(ctb_trials,
                                  [loss |-> r.loss, params |-> r.params,
                                   estimators |-> r.n_estimators])
  /\ UNCHANGED <<H_SPACE, PARAM_GRID, ctb_pc, ctb_call, ctb_instances>>
  /\ ctb_cv' = EnteredAndLeft(ctb_cv)
  /\ UNCHANGED <<xgb_vars, random_vars>>

\* optuna_space() after study.optimize returned.
optuna_space_end ==
  /\ ctb_pc = "study.optimize"
  /\ Len(ctb_trials) = MAX_EVALS
  /\ ctb' = Some([Ctb EXCEPT !.params =
                   Some(with_estimator(best_trial(ctb_trials).params, Ctb.estimator))])
  /\ ctb_pc' = "idle"
  /\ ctb_call' = CtbReturned("train", "study")
  /\ UNCHANGED <<H_SPACE, PARAM_GRID, ctb_trials, ctb_instances>>
  /\ UNCHANGED ctb_cv
  /\ UNCHANGED <<xgb_vars, random_vars>>

\* cb.cv raises inside optuna_obj: study.optimize lets it through and the
\* except clause of optuna_space returns a dictionary.
optuna_obj_raises ==
  /\ ctb_pc = "study.optimize"
  /\ Len(ctb_trials) < MAX_EVALS
  /\ ctb' = Some([Ctb EXCEPT !.iteration = @ + 1])
  /\ ctb_pc' = "idle"
  /\ ctb_call' = CtbReturned("train", "{'exception': ...}")
  /\ UNCHANGED <<H_SPACE, PARAM_GRID, ctb_trials, ctb_instances>>
  /\ ctb_cv' = EnteredAndLeft(ctb_cv)
  /\ UNCHANGED <<xgb_vars, random_vars>>

\* train() -> random_space(), up to its loop. The empty random_results
\* table is the empty sequence of rows.
random_space_begin ==
  /\ ctb_pc = "idle"
  /\ Ctb.optimization_method = "random_search"
  /\ Ctb.iteration = 0
  /\ PARAM_GRID' = random_space_update(PARAM_GRID, Ctb.GPU, Ctb.lossguide_verifier)
  /\ ctb_trials' = <<>>
  /\ ctb_pc' = "for i in range(MAX_EVALS)"
  /\ UNCHANGED <<H_SPACE, ctb, ctb_call, ctb_instances>>
  /\ ctb_cv' = NoCalls
  /\ UNCHANGED <<xgb_vars, random_vars>>

\* One iteration of the loop of random_space: the sample, randomsrch_obj
\* and random_results.loc[i, :] = results_list.
randomsrch_obj(cvs) ==
  /\ ctb_pc = "for i in range(MAX_EVALS)"
  /\ Len(ctb_trials) < MAX_EVALS
  /\ \E pick \in Picks, cv \in cvs :
       LET params == randomsrch_obj_params(sample(PARAM_GRID, pick), Ctb.GPU)
           r == ctb_crossval(params, cv)
       IN /\ ctb' = Some([Ctb EXCEPT
                           !.iteration = @ + 1,
                           !.lossguide_verifier = verifier_after(@, params, Ctb.GPU),
                           !.estimator = Some(r.n_estimators)])
          /\ ctb_trials' = Append(ctb_trials,
                             [label |-> Len(ctb_trials), loss |-> r.loss,
                              params |-> r.params,
                              iteration |-> Len(ctb_trials),
                              estimators |-> r.n_estimators,
                              time |-> r.run_time])
  /\ UNCHANGED <<H_SPACE, PARAM_GRID, ctb_pc, ctb_call, ctb_instances>>
  /\ ctb_cv' = EnteredAndLeft(ctb_cv)
  /\ UNCHANGED <<xgb_vars, random_vars>>

\* random_results.sort_values('loss', ascending = True, inplace = True)
\* followed by random_results.loc[0, 'params']
random_best(random_results) == loc(sort_values(random_results), 0)

\* random_space() after its loop.
random_space_end ==
  /\ ctb_pc = "for i in range(MAX_EVALS)"
  /\ Len(ctb_trials) = MAX_EVALS
  /\ ctb' = Some([Ctb EXCEPT !.params =
                   Some(with_estimator(random_best(ctb_trials).params, Ctb.estimator))])
  /\ ctb_trials' = sort_values(ctb_trials)
  /\ ctb_pc' = "idle"
  /\ ctb_call' = CtbReturned("train", "random_results")
  /\ UNCHANGED <<H_SPACE, PARAM_GRID, ctb_instances>>
  /\ UNCHANGED ctb_cv
  /\ UNCHANGED <<xgb_vars, random_vars>>

\* cb.cv raises inside randomsrch_obj: random_space has no try, so the
\* exception leaves random_space and train().
randomsrch_obj_raises ==
  /\ ctb_pc = "for i in range(MAX_EVALS)"
  /\ Len(ctb_trials) < MAX_EVALS
  /\ \E pick \in Picks :
       LET params == randomsrch_obj_params(sample(PARAM_GRID, pick), Ctb.GPU)
       IN ctb' = Some([Ctb EXCEPT
                        !.iteration = @ + 1,
                        !.lossguide_verifier = verifier_after(@, params, Ctb.GPU)])
  /\ ctb_pc' = "idle"
  /\ ctb_call' = CtbRaised("train", "CatBoostError")
  /\ UNCHANGED <<H_SPACE, PARAM_GRID, ctb_trials, ctb_instances>>
  /\ ctb_cv' = EnteredAndLeft(ctb_cv)
  /\ UNCHANGED <<xgb_vars, random_vars>>


(***************************************************************************)
(* The optimisation loops one call at a time: a trial is the step that     *)
(* enters the cross-validation call and the step that leaves it.           *)
(***************************************************************************)
\* Where train_models stands while the optimiser runs its trials, and while
\* one of its objectives is inside cross_validation.
LoopPc(optimizer) ==
  CASE optimizer = "hyperopt" -> "fmin"
    [] optimizer = "optuna" -> "study.optimize"
    [] optimizer = "random_search" -> "for i in range(max_evals)"
ObjectivePc(optimizer) ==
  CASE optimizer = "hyperopt" -> "hyperopt_objective"
    [] optimizer = "optuna" -> "optuna_objective"
    [] optimizer = "random_search" -> "random_objective"
TrialsAttribute(optimizer) == optimizer \o "_trials"

\* A loop that runs one trial more than max_evals.
cross_validation_enter_one_more(optimizer) ==
  /\ xgb_pc = LoopPc(optimizer)
  /\ Len(Self[TrialsAttribute(optimizer)]) <= Self.max_evals
  /\ \E space \in trial_spaces[Self.GPU][optimizer] :
       xgb_cv' = Entered(xgb_cv, space)
  /\ xgb_pc' = ObjectivePc(optimizer)
  /\ UNCHANGED <<xgb, xgb_flags, xgb_init_args, xgb_call, files>>
  /\ UNCHANGED <<ctb_vars, random_vars>>

\* hyperopt_objective, optuna_objective or the loop body of
\* random_search_tuning with random_objective, up to the entry into
\* cross_validation(space).
cross_validation_enter(optimizer) ==
  /\ xgb_pc = LoopPc(optimizer)
  /\ Len(Self[TrialsAttribute(optimizer)]) < Self.max_evals
  /\ \E space \in trial_spaces[Self.GPU][optimizer] :
       xgb_cv' = Entered(xgb_cv, space)
  /\ xgb_pc' = ObjectivePc(optimizer)
  /\ UNCHANGED <<xgb, xgb_flags, xgb_init_args, xgb_call, files>>
  /\ UNCHANGED <<ctb_vars, random_vars>>

\* The first invocation of an objective in a run, with any sample of its
\* search space, up to the entry into cross_validation(space).
cross_validation_enter_first(optimizer) ==
  /\ xgb_pc = LoopPc(optimizer)
  /\ Self[TrialsAttribute(optimizer)] = <<>>
  /\ 0 < Self.max_evals
  /\ \E space \in search_spaces[Self.GPU][optimizer] :
       xgb_cv' = Entered(xgb_cv, space)
  /\ xgb_pc' = ObjectivePc(optimizer)
  /\ UNCHANGED <<xgb, xgb_flags, xgb_init_args, xgb_call, files>>
  /\ UNCHANGED <<ctb_vars, random_vars>>

\* cross_validation returns and the objective appends the result to its
\* trial table.
cross_validation_return(optimizer) ==
  /\ xgb_pc = ObjectivePc(optimizer)
  /\ \E cv \in CvResults(Self.num_boost_rounds) :
       LET space == xgb_cv.in_progress[Len(xgb_cv.in_progress)]
           results == cross_validation(space, cv)
       IN xgb' = Some([Self EXCEPT ![TrialsAttribute(optimizer)] =
                                     df_append(@, results)])
  /\ xgb_cv' = Left(xgb_cv)
  /\ xgb_pc' = LoopPc(optimizer)
  /\ UNCHANGED <<xgb_flags, xgb_init_args, xgb_call, files>>
  /\ UNCHANGED <<ctb_vars, random_vars>>

\* xgb.cv raises: the exception leaves cross_validation, the objective,
\* the tuning method and train_models.
cross_validation_raise(optimizer) ==
  /\ xgb_pc = ObjectivePc(optimizer)
  /\ xgb_cv' = Left(xgb_cv)
  /\ xgb_pc' = "idle"
  /\ xgb_call' = Raised("train_models", "XGBoostError")
  /\ UNCHANGED <<xgb, xgb_flags, xgb_init_args, files>>
  /\ UNCHANGED <<ctb_vars, random_vars>>

CtbLoopPcs == {"fmin", "study.optimize", "for i in range(MAX_EVALS)"}
CtbObjectivePcs == {"hyperopt_obj", "optuna_obj", "randomsrch_obj"}
CtbLoopPc(method) ==
  CASE method = "hyperopt" -> "fmin"
    [] method = "optuna" -> "study.optimize"
    [] method = "random_search" -> "for i in range(MAX_EVALS)"
CtbObjectivePc(method) ==
  CASE method = "hyperopt" -> "hyperopt_obj"
    [] method = "optuna" -> "optuna_obj"
    [] method = "random_search" -> "randomsrch_obj"

\* What the objective of the instance's method passes to ctb_crossval.
ctb_obj_params(pick) ==
  CASE Ctb.optimization_method = "hyperopt" ->
         hyperopt_obj_params(sample(H_SPACE, pick), Ctb.GPU)
    [] Ctb.optimization_method = "optuna" ->
         optuna_obj_params(pick, Ctb.GPU)
    [] Ctb.optimization_method = "random_search" ->
         randomsrch_obj_params(sample(PARAM_GRID, pick), Ctb.GPU)

\* A trial that starts while the previous one is still inside ctb_crossval.
ctb_crossval_enter_overlapping ==
  /\ ctb_pc \in CtbLoopPcs \cup CtbObjectivePcs
  /\ Len(ctb_trials) < MAX_EVALS
  /\ \E pick \in Picks :
       LET params == ctb_obj_params(pick)
       IN /\ ctb' = Some([Ctb EXCEPT
                           !.iteration = @ + 1,
                           !.lossguide_verifier =
                              IF Ctb.optimization_method = "optuna" THEN @
                              ELSE verifier_after(@, params, Ctb.GPU)])
          /\ ctb_cv' = Entered(ctb_cv, params)
  /\ ctb_pc' = CtbObjectivePc(Ctb.optimization_method)
  /\ UNCHANGED <<H_SPACE, PARAM_GRID, ctb_trials, ctb_call, ctb_instances>>
  /\ UNCHANGED <<xgb_vars, random_vars>>

\* hyperopt_obj, optuna_obj or randomsrch_obj up to the entry into
\* ctb_crossval(params, optim_type).
ctb_crossval_enter ==
  /\ ctb_pc \in CtbLoopPcs
  /\ Len(ctb_trials) < MAX_EVALS
  /\ \E pick \in Picks :
       LET params == ctb_obj_params(pick)
       IN /\ ctb' = Some([Ctb EXCEPT
                           !.iteration = @ + 1,
                           !.lossguide_verifier =
                              IF Ctb.optimization_method = "optuna" THEN @
                              ELSE verifier_after(@, params, Ctb.GPU)])
          /\ ctb_cv' = Entered(ctb_cv, params)
  /\ ctb_pc' = CtbObjectivePc(Ctb.optimization_method)
  /\ UNCHANGED <<H_SPACE, PARAM_GRID, ctb_trials, ctb_call, ctb_instances>>
  /\ UNCHANGED <<xgb_vars, random_vars>>

\* What the objective passes to ctb_crossval when the coupled choices are
\* drawn independently.
ctb_obj_params_of(choice) ==
  CASE Ctb.optimization_method = "hyperopt" ->
         hyperopt_obj_params(sample_choice(H_SPACE, choice), Ctb.GPU)
    [] Ctb.optimization_method = "optuna" ->
         optuna_obj_suggested(sample_choice(optuna_lists(Ctb.GPU), choice), Ctb.GPU)
    [] Ctb.optimization_method = "random_search" ->
         randomsrch_obj_params(sample_choice(PARAM_GRID, choice), Ctb.GPU)

\* The objective of one of the first MaxSampledTrials trials of a run, up
\* to the entry into ctb_crossval.
ctb_crossval_enter_sampled ==
  /\ ctb_pc \in CtbLoopPcs
  /\ Len(ctb_trials) < MAX_EVALS
  /\ Len(ctb_trials) < MaxSampledTrials
  /\ \E choice \in Choices :
       LET params == ctb_obj_params_of(choice)
       IN /\ ctb' = Some([Ctb EXCEPT
                           !.iteration = @ + 1,
                           !.lossguide_verifier =
                              IF Ctb.optimization_method = "optuna" THEN @
                              ELSE verifier_after(@, params, Ctb.GPU)])
          /\ ctb_cv' = Entered(ctb_cv, params)
  /\ ctb_pc' = CtbObjectivePc(Ctb.optimization_method)
  /\ UNCHANGED <<H_SPACE, PARAM_GRID, ctb_trials, ctb_call, ctb_instances>>
  /\ UNCHANGED <<xgb_vars, random_vars>>

\* cv_results['test-AUC-mean'] as cb.cv can return it: one mean AUC per
\* round, at least one round.
TestAucMean == UNION {[1..n -> 0..AucScale] : n \in 1..MaxRounds}
\* np.max(a)
np_max(a) == CHOOSE v \in {a[i] : i \in DOMAIN a} : \A i \in DOMAIN a : a[i] <= v
\* An argmax that returns the last position of the maximum.
np_argmax_last(a) ==
  (CHOOSE i \in DOMAIN a :
     a[i] = np_max(a) /\ \A j \in DOMAIN a : j > i => a[j] # np_max(a)) - 1
\* np.argmax(a): the 0-based position of the first occurrence of the maximum
np_argmax(a) ==
  (CHOOSE i \in DOMAIN a :
     a[i] = np_max(a) /\ \A j \in DOMAIN a : j < i => a[j] # np_max(a)) - 1
\* best_score, loss = 1 - best_score (in units of 1/AucScale) and
\* n_estimators of ctb_crossval.
cb_cv_summary(test_auc_mean) ==
  [loss |-> AucScale - np_max(test_auc_mean),
   n_estimators |-> np_argmax(test_auc_mean) + 1]

\* The first call of ctb_crossval(params, optim_type) on an idle instance,
\* cb.cv returning test_auc_mean.
ctb_crossval_call(pick, test_auc_mean) ==
  /\ ctb_pc = "idle"
  /\ Ctb.optimization_method \in SupportedMethods
  /\ ctb_cv = NoCalls
  /\ LET r == ctb_crossval(ctb_obj_params(pick), cb_cv_summary(test_auc_mean))
     IN /\ ctb' = Some([Ctb EXCEPT !.estimator = Some(r.n_estimators)])
        /\ ctb_call' = CtbReturned("ctb_crossval", r)
  /\ ctb_cv' = EnteredAndLeft(ctb_cv)
  /\ UNCHANGED <<H_SPACE, PARAM_GRID, ctb_pc, ctb_trials, ctb_instances>>
  /\ UNCHANGED <<xgb_vars, random_vars>>

\* The record the optimiser keeps of a trial.
ctb_trial_record(method, r, iteration, row) ==
  CASE method = "hyperopt" ->
         [loss |-> r.loss, params |-> r.params, iteration |-> iteration,
          estimators |-> r.n_estimators, train_time |-> r.run_time,
          status |-> "ok"]
    [] method = "optuna" ->
         [loss |-> r.loss, params |-> r.params, estimators |-> r.n_estimators]
    [] method = "random_search" ->
         [label |-> row, loss |-> r.loss, params |-> r.params,
          iteration |-> row, estimators |-> r.n_estimators,
          time |-> r.run_time]

\* ctb_crossval returns and the trial is recorded.
ctb_crossval_return(cvs) ==
  /\ ctb_pc \in CtbObjectivePcs
  /\ \E cv \in cvs :
       LET params == ctb_cv.in_progress[Len(ctb_cv.in_progress)]
           r == ctb_crossval(params, cv)
       IN /\ ctb' = Some([Ctb EXCEPT !.estimator = Some(r.n_estimators)])
          /\ ctb_trials' = Append(ctb_trials,
                                  ctb_trial_record(Ctb.optimization_method, r,
                                                   Ctb.iteration, Len(ctb_trials)))
  /\ ctb_cv' = Left(ctb_cv)
  /\ ctb_pc' = CtbLoopPc(Ctb.optimization_method)
  /\ UNCHANGED <<H_SPACE, PARAM_GRID, ctb_call, ctb_instances>>
  /\ UNCHANGED <<xgb_vars, random_vars>>

\* cb.cv raises: hyperopt_space and optuna_space catch the exception and
\* return a dictionary, random_space lets it through.
ctb_crossval_raise ==
  /\ ctb_pc \in CtbObjectivePcs
  /\ ctb_cv' = Left(ctb_cv)
  /\ ctb_pc' = "idle"
  /\ ctb_call' =
       CASE Ctb.optimization_method = "hyperopt" ->
              CtbReturned("train", "{'status': 'fail', 'exception': ...}")
         [] Ctb.optimization_method = "optuna" ->
              CtbReturned("train", "{'exception': ...}")
         [] Ctb.optimization_method = "random_search" ->
              CtbRaised("train", "CatBoostError")
  /\ UNCHANGED <<H_SPACE, PARAM_GRID, ctb, ctb_trials, ctb_instances>>
  /\ UNCHANGED <<xgb_vars, random_vars>>


(***************************************************************************)
(* The generator of the module random and the runs of random search.       *)
(***************************************************************************)
\* random.seed(a)
random_seed(a) == [seed |-> a, draws |-> 0]
\* The index random.sample(population, 1) selects in a population of n.
random_index(state, n) ==
  ((state.seed * 5 + state.draws * 3 + state.seed * state.draws) % n) + 1
\* The generator after k more samples.
random_after(state, k) == [state EXCEPT !.draws = @ + k]

\* {key: random.sample(list(value), 1)[0] for key, value in space.items()}
\* for a dictionary given as the sequence of its items.
random_sample_items(items, state) ==
  [key \in {items[i][1] : i \in DOMAIN items} |->
     LET i == CHOOSE i \in DOMAIN items : items[i][1] = key
         value == items[i][2]
     IN value[random_index(random_after(state, i - 1), Len(value))]]

\* random_params() as the sequence of its items.
random_params_items(GPU, ratio) ==
  LET base == xgb_base_params(ratio)
      tree_method_list == IF GPU THEN <<"gpu_hist">>
                          ELSE <<"auto", "exact", "approx", "hist">>
  IN << <<"objective", <<base.objective>> >>,
        <<"eval_metric", <<base.eval_metric>> >>,
        <<"disable_default_eval_metric", <<base.disable_default_eval_metric>> >>,
        <<"booster", <<"gbtree", "dart">> >>,
        <<"reg_lambda", <<base.reg_lambda>> >>,
        <<"reg_alpha", <<base.reg_alpha>> >>,
        <<"verbosity", <<base.verbosity>> >>,
        <<"max_delta_step", <<base.max_delta_step>> >>,
        <<"max_depth", <<base.max_depth>> >>,
        <<"eta", <<base.eta>> >>,
        <<"gamma", <<base.gamma>> >>,
        <<"grow_policy", <<"depthwise", "lossguide">> >>,
        <<"min_child_weight", <<base.min_child_weight>> >>,
        <<"subsample", <<base.subsample>> >>,
        <<"sampling_method", <<"uniform">> >>,
        <<"colsample_bytree", <<base.colsample_bytree>> >>,
        <<"colsample_bylevel", <<base.colsample_bylevel>> >>,
        <<"colsample_bynode", <<base.colsample_bynode>> >>,
        <<"tree_method", tree_method_list>>,
        <<"scale_pos_weight", <<base.scale_pos_weight>> >>,
        <<"predictor", <<"cpu_predictor">> >> >>

\* param after the tests of the loop body, as the sequence of its items.
random_param_items(param_sample) ==
  (IF param_sample.grow_policy = "lossguide"
   THEN << <<"max_leaves", <<0>> >> >> ELSE <<>>) \o
  (IF param_sample.booster = "dart"
   THEN << <<"sample_type", <<"uniform", "weighted">> >>,
           <<"normalize_type", <<"tree", "forest">> >>,
           <<"rate_drop", <<0>> >>, <<"skip_drop", <<0>> >> >>
   ELSE <<>>) \o
  (IF param_sample.tree_method = "hist"
   THEN << <<"max_bin", <<128, 256, 512, 1024>> >> >> ELSE <<>>) \o
  (IF param_sample.tree_method = "approx"
   THEN << <<"sketch_eps", <<0>> >> >> ELSE <<>>) \o
  (IF param_sample.tree_method = "gpu_hist"
   THEN << <<"max_bin", <<128, 256, 512, 1024>> >>,
           <<"single_precision_histogram", <<TRUE, FALSE>> >>,
           <<"deterministic_histogram", <<TRUE, FALSE>> >>,
           <<"subsample", <<1>> >>,
           <<"sampling_method", <<"gradient_based">> >>,
           <<"predictor", <<"gpu_predictor">> >> >>
   ELSE <<>>)

\* One iteration of the loop of random_search_tuning with the generator in
\* `state`: the dictionary passed to random_objective and the generator
\* afterwards.
random_search_iteration(GPU, ratio, state) ==
  LET space == random_params_items(GPU, ratio)
      param_sample == random_sample_items(space, state)
      param == random_param_items(param_sample)
      state1 == random_after(state, Len(space))
      param_sam == random_sample_items(param, state1)
  IN [param_sample |-> Update(param_sample, param_sam),
      state |-> random_after(state1, Len(param))]

RandomInit ==
  /\ rnd = random_seed(0)
  /\ searches = <<>>

SearchActive ==
  /\ searches # <<>>
  /\ Len(searches[Len(searches)].passed) < searches[Len(searches)].max_evals

\* random.seed called outside a run of random search: train_models of an
\* instance, randomsrch_obj of Ctbclass.
random_seed_elsewhere(a) ==
  /\ ~SearchActive
  /\ rnd' = random_seed(a)
  /\ UNCHANGED <<searches, xgb_vars, ctb_vars>>

\* random.sample called outside a run of random search: random_space and
\* randomsrch_obj of Ctbclass.
random_sample_elsewhere ==
  /\ ~SearchActive
  /\ rnd.draws < MaxDraws
  /\ rnd' = random_after(rnd, 1)
  /\ UNCHANGED <<searches, xgb_vars, ctb_vars>>

\* random_search_tuning that does not seed the generator.
random_search_tuning_unseeded(seed, GPU, max_evals) ==
  /\ ~SearchActive
  /\ Len(searches) < 2
  /\ searches' = Append(searches, [seed |-> seed, GPU |-> GPU,
                                    max_evals |-> max_evals,
                                    generator_before |-> rnd,
                                    passed |-> <<>>])
  /\ UNCHANGED <<rnd, xgb_vars, ctb_vars>>

\* random_search_tuning() of an instance with the given attributes, up to
\* its loop. Two runs are explored.
random_search_tuning_seed(seed, GPU, max_evals) ==
  /\ ~SearchActive
  /\ Len(searches) < 2
  /\ rnd' = random_seed(seed)
  /\ searches' = Append(searches, [seed |-> seed, GPU |-> GPU,
                                    max_evals |-> max_evals,
                                    generator_before |-> rnd,
                                    passed |-> <<>>])
  /\ UNCHANGED <<xgb_vars, ctb_vars>>

\* One iteration of the loop of random_search_tuning.
random_search_tuning_iteration ==
  /\ SearchActive
  /\ LET run == searches[Len(searches)]
         it == random_search_iteration(run.GPU, 1, rnd)
     IN /\ searches' = [searches EXCEPT ![Len(searches)].passed =
                                          Append(@, it.param_sample)]
        /\ rnd' = it.state
  /\ UNCHANGED <<xgb_vars, ctb_vars>>

XgbNext ==
  \/ \E a \in LifecycleArgs : XGBoostModel_init(a)
  \/ \E h \in BOOLEAN, o \in BOOLEAN, r \in BOOLEAN : train_models(h, o, r)
  \/ hyperopt_tuning_begin
  \/ hyperopt_objective
  \/ hyperopt_tuning_end
  \/ optuna_tuning_begin
  \/ optuna_objective
  \/ optuna_tuning_end
  \/ random_search_tuning_begin
  \/ random_objective
  \/ random_search_tuning_end
  \/ train_models_end
  \/ cross_validation_raises
  \/ test_models
  \/ \E t \in ImportanceTypes : feature_importance(t)

\* The constructor alone, over every typing of its arguments.
XgbInitNext == \E a \in CtorArgs : XGBoostModel_init(a)

vars == <<xgb_vars, ctb_vars, random_vars>>

\* One Ctbclass instance and its train() call.
CtbNext ==
  \/ \E m \in Methods, v \in BOOLEAN, g \in BOOLEAN :
       ctb_instances = 0 /\ Ctbclass_init(m, v, g)
  \/ train_no_method
  \/ hyperopt_space_begin
  \/ hyperopt_obj(CtbCvResults)
  \/ hyperopt_space_end
  \/ hyperopt_obj_raises
  \/ optuna_space_begin
  \/ optuna_obj(CtbCvResults)
  \/ optuna_space_end
  \/ optuna_obj_raises
  \/ random_space_begin
  \/ randomsrch_obj(CtbCvResults)
  \/ random_space_end
  \/ randomsrch_obj_raises

\* Instances constructed and trained one after the other in one process.
CtbSeqNext ==
  \/ \E m \in Methods, v \in BOOLEAN, g \in BOOLEAN :
       ctb_instances < MaxInstances /\ Ctbclass_init(m, v, g)
  \/ train_no_method
  \/ hyperopt_space_begin
  \/ hyperopt_obj(CtbOneCvResult)
  \/ hyperopt_space_end
  \/ hyperopt_obj_raises
  \/ optuna_space_begin
  \/ optuna_obj(CtbOneCvResult)
  \/ optuna_space_end
  \/ optuna_obj_raises
  \/ random_space_begin
  \/ randomsrch_obj(CtbOneCvResult)
  \/ random_space_end
  \/ randomsrch_obj_raises

Init == XgbInit /\ CtbInit /\ RandomInit

SpecXgb == Init /\ [][XgbNext]_vars
SpecXgbInit == Init /\ [][XgbInitNext]_vars
SpecCtb == Init /\ [][CtbNext]_vars
SpecCtbSeq == Init /\ [][CtbSeqNext]_vars

\* One process that uses either class, its optimisation loops taken one
\* call at a time; train_models runs one optimiser. The process keeps
\* running while it has a step to take.
OneOptimizer(h, o, r) == (h /\ ~o /\ ~r) \/ (~h /\ o /\ ~r) \/ (~h /\ ~o /\ r)
CallsNext ==
  \/ \E a \in LifecycleArgs : ctb_pc = "no_instance" /\ XGBoostModel_init(a)
  \/ \E h \in BOOLEAN, o \in BOOLEAN, r \in BOOLEAN :
       OneOptimizer(h, o, r) /\ train_models(h, o, r)
  \/ hyperopt_tuning_begin
  \/ hyperopt_tuning_end
  \/ optuna_tuning_begin
  \/ optuna_tuning_end
  \/ random_search_tuning_begin
  \/ random_search_tuning_end
  \/ \E optimizer \in OptimizerNames : cross_validation_enter(optimizer)
  \/ \E optimizer \in OptimizerNames : cross_validation_return(optimizer)
  \/ \E optimizer \in OptimizerNames : cross_validation_raise(optimizer)
  \/ train_models_end
  \/ \E m \in Methods, v \in BOOLEAN, g \in BOOLEAN :
       xgb_pc = "no_instance" /\ ctb_instances = 0 /\ Ctbclass_init(m, v, g)
  \/ train_no_method
  \/ hyperopt_space_begin
  \/ hyperopt_space_end
  \/ optuna_space_begin
  \/ optuna_space_end
  \/ random_space_begin
  \/ random_space_end
  \/ ctb_crossval_enter
  \/ ctb_crossval_return(CtbOneCvResult)
  \/ ctb_crossval_raise

SpecCalls == Init /\ [][CallsNext]_vars /\ WF_vars(CallsNext)

\* The first trial of each tuning method of one XGBoostModel instance, with
\* every sample of the search space.
XgbParamsNext ==
  \/ \E a \in LifecycleArgs : XGBoostModel_init(a)
  \/ \E h \in BOOLEAN, o \in BOOLEAN, r \in BOOLEAN :
       OneOptimizer(h, o, r) /\ train_models(h, o, r)
  \/ hyperopt_tuning_begin
  \/ optuna_tuning_begin
  \/ random_search_tuning_begin
  \/ \E optimizer \in OptimizerNames : cross_validation_enter_first(optimizer)
  \/ \E optimizer \in OptimizerNames : cross_validation_return(optimizer)

SpecXgbParams == Init /\ [][XgbParamsNext]_vars

\* Two runs of random search in a process that also uses the module random
\* elsewhere.
SeedNext ==
  \/ \E a \in 1..MaxSeed : random_seed_elsewhere(a)
  \/ random_sample_elsewhere
  \/ \E seed \in 1..MaxSeed, GPU \in BOOLEAN, max_evals \in 1..MaxEvals :
       random_search_tuning_seed(seed, GPU, max_evals)
  \/ random_search_tuning_iteration

SpecSeed == Init /\ [][SeedNext]_vars

\* Calls of ctb_crossval on one Ctbclass instance with every table cb.cv
\* can return.
CtbCvNext ==
  \/ \E m \in SupportedMethods, v \in BOOLEAN, g \in BOOLEAN :
       ctb_instances = 0 /\ Ctbclass_init(m, v, g)
  \/ \E pick \in Picks, test_auc_mean \in TestAucMean :
       ctb_crossval_call(pick, test_auc_mean)

SpecCtbCv == Init /\ [][CtbCvNext]_vars

\* The first trials of the run of one Ctbclass instance, with the coupled
\* choices of every trial drawn independently.
CtbParamsNext ==
  \/ \E m \in SupportedMethods, v \in BOOLEAN, g \in BOOLEAN :
       ctb_instances = 0 /\ Ctbclass_init(m, v, g)
  \/ hyperopt_space_begin
  \/ optuna_space_begin
  \/ random_space_begin
  \/ ctb_crossval_enter_sampled
  \/ ctb_crossval_return(CtbOneCvResult)

SpecCtbParams == Init /\ [][CtbParamsNext]_vars

(***************************************************************************)
(* Properties.                                                             *)
(***************************************************************************)
Rows(trials) == 1..Len(trials)
\* A row of smallest loss among the recorded trials.
HasMinLoss(trials, i) == \A j \in Rows(trials) : trials[i].loss <= trials[j].loss
IsParamsOfMinLossTrial(params, trials) ==
  \E i \in Rows(trials) : HasMinLoss(trials, i) /\ trials[i].params = params

\* C1: for hyperopt_tuning, optuna_tuning and random_search_tuning alike,
\* the parameters stored as the best of a run (best_hyperopt_params,
\* best_optuna_params, best_random_search_params) are the parameters of a
\* trial whose loss is the minimum over the trials recorded in that run.
C1_BestParamsHaveMinLoss ==
  ~IsNone(xgb) =>
    /\ ~IsNone(Self.best_hyperopt_params) =>
         IsParamsOfMinLossTrial(Val(Self.best_hyperopt_params), Self.hyperopt_trials)
    /\ ~IsNone(Self.best_optuna_params) =>
         IsParamsOfMinLossTrial(Val(Self.best_optuna_params), Self.optuna_trials)
    /\ ~IsNone(Self.best_random_search_params) =>
         IsParamsOfMinLossTrial(Val(Self.best_random_search_params),
                                Self.random_search_trials)

\* C1, the run that shows it: two hyperopt trials, the second with the
\* smaller loss and other parameters, and the first one's parameters
\* stored as the best.
C1_FirstTrialStoredAsBest ==
  /\ ~IsNone(xgb)
  /\ ~IsNone(Self.best_hyperopt_params)
  /\ Len(Self.hyperopt_trials) = 2
  /\ Self.hyperopt_trials[1].loss = 2
  /\ Self.hyperopt_trials[2].loss = 1
  /\ Self.hyperopt_trials[1].params # Self.hyperopt_trials[2].params
  /\ Val(Self.best_hyperopt_params) = Self.hyperopt_trials[1].params

\* train() returned what a completed optimisation returns.
CtbTrainCompleted ==
  /\ ctb_call.name = "train"
  /\ ctb_call.value \in {"trials, params", "study", "random_results"}
\* self.params without regard to its 'n_estimators' key is the given
\* configuration.
IsConfigOf(params, config) ==
  params = SetItem(config, "n_estimators", params.n_estimators)

\* C2: after train() completes without an exception, for each of the three
\* optimization methods, self.params (ignoring the added 'n_estimators'
\* key) is the configuration of a trial whose loss is the minimum over the
\* MAX_EVALS trials of that run.
C2_ParamsOfMinLossTrial ==
  CtbTrainCompleted =>
    /\ Len(ctb_trials) = MAX_EVALS
    /\ \E i \in Rows(ctb_trials) :
         /\ HasMinLoss(ctb_trials, i)
         /\ IsConfigOf(Val(Ctb.params), ctb_trials[i].params)

\* C2, the part that holds: the same for the methods 'hyperopt' and
\* 'optuna'.
C2_HyperoptOptunaParamsOfMinLossTrial ==
  CtbTrainCompleted /\ Ctb.optimization_method \in {"hyperopt", "optuna"} =>
    /\ Len(ctb_trials) = MAX_EVALS
    /\ \E i \in Rows(ctb_trials) :
         /\ HasMinLoss(ctb_trials, i)
         /\ IsConfigOf(Val(Ctb.params), ctb_trials[i].params)

\* C2, the run that shows it: a completed random search whose self.params
\* is the configuration of the trial labelled 0 although every trial of
\* that configuration has a loss above the minimum.
C2_RandomSearchKeepsFirstTrial ==
  /\ CtbTrainCompleted
  /\ Ctb.optimization_method = "random_search"
  /\ IsConfigOf(Val(Ctb.params), loc(ctb_trials, 0).params)
  /\ \A i \in Rows(ctb_trials) :
       IsConfigOf(Val(Ctb.params), ctb_trials[i].params) =>
         ~HasMinLoss(ctb_trials, i)

\* C3: after a successful optimization run, self.params['n_estimators'] is
\* the number of estimators ctb_crossval computed for the minimum-loss
\* trial of the run: configuration and estimator count of self.params
\* belong to one trial, which has the minimum loss.
C3_EstimatorsOfBestTrial ==
  CtbTrainCompleted =>
    \E i \in Rows(ctb_trials) :
      /\ HasMinLoss(ctb_trials, i)
      /\ IsConfigOf(Val(Ctb.params), ctb_trials[i].params)
      /\ Val(Ctb.params).n_estimators = ctb_trials[i].estimators

\* C3, the run that shows it: a completed hyperopt run whose first trial
\* alone has the minimum loss, with 1 estimator, while self.params carries
\* the 2 estimators of the last trial.
C3_EstimatorsOfLastTrial ==
  /\ CtbTrainCompleted
  /\ Ctb.optimization_method = "hyperopt"
  /\ ctb_trials[1].loss = 1 /\ ctb_trials[1].estimators = 1
  /\ \A i \in Rows(ctb_trials) \ {1} : ctb_trials[i].loss = 2
  /\ ctb_trials[MAX_EVALS].estimators = 2
  /\ IsConfigOf(Val(Ctb.params), ctb_trials[1].params)
  /\ Val(Ctb.params).n_estimators = 2

HyperoptCsv == "XGBoost_trials/hyperopt_trials.csv"
OptunaCsv == "XGBoost_trials/optuna_trials.csv"
RandomSearchCsv == "XGBoost_trials/random_search_trials.csv"

\* C4: the trial table each of hyperopt_tuning, optuna_tuning and
\* random_search_tuning writes to its CSV file is written after the last
\* trial: once the run has stored its best parameters, the file holds
\* exactly max_evals rows.
C4_CsvHasMaxEvalsRows ==
  ~IsNone(xgb) =>
    /\ ~IsNone(Self.best_hyperopt_params) =>
         HyperoptCsv \in DOMAIN files /\ Len(files[HyperoptCsv]) = Self.max_evals
    /\ ~IsNone(Self.best_optuna_params) =>
         OptunaCsv \in DOMAIN files /\ Len(files[OptunaCsv]) = Self.max_evals
    /\ ~IsNone(Self.best_random_search_params) =>
         /\ RandomSearchCsv \in DOMAIN files
         /\ Len(files[RandomSearchCsv]) = Self.max_evals

\* C4, the part that holds: the files of hyperopt_tuning and
\* random_search_tuning hold the max_evals rows of the run.
C4_HyperoptRandomCsvHasMaxEvalsRows ==
  ~IsNone(xgb) =>
    /\ ~IsNone(Self.best_hyperopt_params) =>
         /\ HyperoptCsv \in DOMAIN files
         /\ files[HyperoptCsv] = Self.hyperopt_trials
         /\ Len(files[HyperoptCsv]) = Self.max_evals
    /\ ~IsNone(Self.best_random_search_params) =>
         /\ RandomSearchCsv \in DOMAIN files
         /\ files[RandomSearchCsv] = Self.random_search_trials
         /\ Len(files[RandomSearchCsv]) = Self.max_evals

\* C4, the run that shows it: optuna_tuning has completed its max_evals
\* trials and its CSV file has no row.
C4_OptunaCsvEmpty ==
  /\ ~IsNone(xgb)
  /\ ~IsNone(Self.best_optuna_params)
  /\ Len(Self.optuna_trials) = Self.max_evals
  /\ OptunaCsv \in DOMAIN files
  /\ files[OptunaCsv] = <<>>

\* C5: no shared mutable state beyond the instance: hyperopt_space and
\* random_space leave the module-level H_SPACE and PARAM_GRID as declared,
\* so the space a run searches is the declared one updated for the
\* instance's own GPU and lossguide_verifier, whatever ran before.
C5_ModuleSpacesUnchanged ==
  /\ H_SPACE = H_SPACE_declared
  /\ PARAM_GRID = PARAM_GRID_declared

\* C5, the run that shows it: the second instance, GPU = False, is about
\* to start its first hyperopt trial, and the space fmin received is not
\* the declared space updated for this instance: it carries 'thread_count'
\* and the 'Armijo' option, which only a GPU = True run adds.
C5_GpuRunLeaksIntoCpuRun ==
  /\ ctb_instances = 2
  /\ ctb_pc = "fmin"
  /\ Ctb.iteration = 0
  /\ Ctb.GPU = FALSE
  /\ H_SPACE # hyperopt_space_update(H_SPACE_declared, Ctb.GPU,
                                     Ctb.lossguide_verifier)
  /\ "thread_count" \in DOMAIN H_SPACE
  /\ H_SPACE.leaf_estimation_backtracking[1] = "Armijo"

\* C6: for each of hyperopt_space, optuna_space and random_space, an
\* exception raised while the optimizer runs is caught and reported as a
\* returned dictionary: train() never ends by raising.
C6_TrainNeverRaises ==
  ctb_call.name = "train" => ctb_call.exc = "none"

\* C6, the part that holds: a train() that ends by raising is a random
\* search.
C6_OnlyRandomSearchRaises ==
  ctb_call.name = "train" /\ ctb_call.exc # "none" =>
    Ctb.optimization_method = "random_search"

\* C6, the run that shows it: the cross-validation of the third trial of a
\* random search raised and train() ended with that exception.
C6_RandomSearchPropagates ==
  /\ ctb_call = CtbRaised("train", "CatBoostError")
  /\ Ctb.optimization_method = "random_search"
  /\ Len(ctb_trials) = 2
  /\ Ctb.iteration = 3

ArgType(name) == Val(xgb_init_args)[name].type
IntegerArgs == {"max_evals", "n_fold", "num_boost_rounds",
                "early_stopping_rounds", "seed"}
\* What a constructor call that raised TypeError leaves, and what one that
\* returned leaves.
InitRejected ==
  /\ xgb_call = Raised("__init__", "TypeError")
  /\ xgb = None
InitAccepted ==
  /\ xgb_call = Returned("__init__")
  /\ ~IsNone(xgb)
  /\ Self.trained = FALSE /\ Self.tested = FALSE /\ Self.output = None

\* C7 as stated, a boolean not being an integer: the constructor raises
\* TypeError, no attribute set, whenever target_feature is neither a string
\* nor an integer, or one of max_evals, n_fold, num_boost_rounds,
\* early_stopping_rounds, seed is not an integer, or GPU is not a boolean;
\* otherwise the instance has trained = False, tested = False, output = None.
C7_InitRejectsNonIntegers ==
  ~IsNone(xgb_init_args) =>
    IF \/ ArgType("target_feature") \notin {"str", "int"}
       \/ \E n \in IntegerArgs : ArgType(n) # "int"
       \/ ArgType("GPU") # "bool"
    THEN InitRejected
    ELSE InitAccepted

\* C7, amended: the constructor raises TypeError, no attribute set, whenever
\* the type of target_feature is not exactly str or int (a boolean is
\* rejected), or one of max_evals, n_fold, num_boost_rounds,
\* early_stopping_rounds, seed is not an instance of int (a boolean is
\* accepted), or GPU is not a boolean; otherwise the instance has
\* trained = False, tested = False, output = None.
C7_InitTypeChecks ==
  ~IsNone(xgb_init_args) =>
    IF \/ ArgType("target_feature") \notin {"str", "int"}
       \/ \E n \in IntegerArgs : ArgType(n) \notin {"int", "bool"}
       \/ ArgType("GPU") # "bool"
    THEN InitRejected
    ELSE InitAccepted

\* C7, a call it is about: a constructor call with a boolean max_evals and
\* the other arguments well typed returned an instance.
C7_BooleanMaxEvalsAccepted ==
  /\ ~IsNone(xgb_init_args)
  /\ ArgType("max_evals") = "bool"
  /\ ArgType("target_feature") = "str"
  /\ InitAccepted

\* C8: Ctbclass rejects an optimization_method outside 'hyperopt',
\* 'optuna', 'random_search' in its constructor, so no instance with an
\* unsupported method exists and train() is never reached with one.
C8_UnsupportedMethodRejected ==
  ~IsNone(ctb) => Ctb.optimization_method \in SupportedMethods

\* C8, the run that shows it: an instance constructed with the method
\* 'grid_search', whose train() returned None.
C8_TrainReachedWithUnsupportedMethod ==
  /\ ~IsNone(ctb)
  /\ Ctb.optimization_method = "grid_search"
  /\ ctb_call = CtbReturned("train", "None")

\* C9: on an instance on which train_models has never completed (trained
\* is False), test_models and feature_importance with a supported
\* importance_type raise an exception and leave the instance as it was:
\* trained and tested stay False and output is not modified.
C9_UntrainedCallsRaise ==
  [][(/\ xgb_pc = "idle"
      /\ Self.trained = FALSE
      /\ \/ test_models
         \/ \E t \in ImportanceTypes \cap SupportedImportanceTypes :
              feature_importance(t))
     => /\ xgb_call'.exc # "none"
        /\ xgb' = xgb
        /\ Val(xgb').trained = FALSE /\ Val(xgb').tested = FALSE
        /\ Val(xgb').output = Self.output]_vars

\* C9, the calls it is about: test_models raised on an instance whose
\* train_models call ended in an exception after it had stored a first
\* entry in output.
C9_TestModelsRaisedUntrained ==
  /\ xgb_call = Raised("test_models", "Exception")
  /\ Self.trained = FALSE /\ Self.tested = FALSE
  /\ ~IsNone(Self.output)
  /\ DOMAIN Val(Self.output) # {}

OptimizerTrials(name) ==
  CASE name = "hyperopt" -> Self.hyperopt_trials
    [] name = "optuna" -> Self.optuna_trials
    [] name = "random_search" -> Self.random_search_trials
FlaggedOptimizers == {n \in OptimizerNames : Val(xgb_flags)[n]}

\* C10: when train_models(hyperopt, optuna, random_search) completes,
\* output has exactly one entry per optimizer whose flag is True, each
\* entry's 'params' is the parameter dictionary of that optimizer's best
\* (minimum-loss) trial, each entry's 'model' is trained from exactly those
\* params, and trained is True.
C10_TrainModelsOutput ==
  xgb_call = Returned("train_models") =>
    LET out == Val(Self.output)
    IN /\ DOMAIN out = FlaggedOptimizers
       /\ \A i \in DOMAIN out :
            /\ IsParamsOfMinLossTrial(Val(out[i].params), OptimizerTrials(i))
            /\ out[i].model = Some(xgb_train(Val(out[i].params)))
       /\ Self.trained = TRUE

\* C10, the part that holds: the entries are those of the flags, each
\* model is trained from its entry's params, which are the parameters the
\* tuning method stored as its best, and trained is True.
C10_TrainModelsOutputOfStoredBest ==
  xgb_call = Returned("train_models") =>
    LET out == Val(Self.output)
        stored == [hyperopt |-> Self.best_hyperopt_params,
                   optuna |-> Self.best_optuna_params,
                   random_search |-> Self.best_random_search_params]
    IN /\ DOMAIN out = FlaggedOptimizers
       /\ \A i \in DOMAIN out :
            /\ out[i].params = stored[i]
            /\ out[i].model = Some(xgb_train(Val(out[i].params)))
       /\ Self.trained = TRUE

\* C10, the run that shows it: train_models completed with an 'optuna'
\* entry whose params are those of the first of two trials, the second
\* having the smaller loss, and whose model is trained from them.
C10_OutputOfFirstTrial ==
  /\ xgb_call = Returned("train_models")
  /\ "optuna" \in DOMAIN Val(Self.output)
  /\ Len(Self.optuna_trials) = 2
  /\ Self.optuna_trials[1].loss > Self.optuna_trials[2].loss
  /\ Self.optuna_trials[1].params # Self.optuna_trials[2].params
  /\ Val(Val(Self.output)["optuna"].params) = Self.optuna_trials[1].params
  /\ Val(Self.output)["optuna"].model =
       Some(xgb_train(Self.optuna_trials[1].params))

TuningNames == {"hyperopt_tuning", "optuna_tuning", "random_search_tuning"}
StoredBest(name) ==
  CASE name = "hyperopt_tuning" -> Self.best_hyperopt_params
    [] name = "optuna_tuning" -> Self.best_optuna_params
    [] name = "random_search_tuning" -> Self.best_random_search_params
TuningTrials(name) ==
  CASE name = "hyperopt_tuning" -> Self.hyperopt_trials
    [] name = "optuna_tuning" -> Self.optuna_trials
    [] name = "random_search_tuning" -> Self.random_search_trials

\* C11: each of hyperopt_tuning, optuna_tuning and random_search_tuning
\* returns the parameter dictionary of the best (minimum-loss) trial of its
\* run, and the returned value is the dictionary the method stored in its
\* best_*_params attribute.
C11_TuningReturnsStoredBest ==
  xgb_call.name \in TuningNames =>
    /\ xgb_call.value = Val(StoredBest(xgb_call.name))
    /\ IsParamsOfMinLossTrial(xgb_call.value, TuningTrials(xgb_call.name))

\* C11, the part that holds: hyperopt_tuning and optuna_tuning return the
\* dictionary they stored.
C11_HyperoptOptunaReturnStored ==
  xgb_call.name \in {"hyperopt_tuning", "optuna_tuning"} =>
    xgb_call.value = Val(StoredBest(xgb_call.name))

\* C11, the run that shows it: a random search of one trial returned a
\* dictionary with the keys 'params' and 'loss', whose 'params' is what
\* best_random_search_params holds.
C11_RandomSearchReturnsRow ==
  /\ xgb_call.name = "random_search_tuning"
  /\ Len(Self.random_search_trials) = 1
  /\ DOMAIN xgb_call.value = {"params", "loss"}
  /\ xgb_call.value # Val(Self.best_random_search_params)
  /\ xgb_call.value.params = Val(Self.best_random_search_params)
  /\ xgb_call.value.loss = Self.random_search_trials[1].loss

XgbLoopPcs == {LoopPc(o) : o \in OptimizerNames}
XgbObjectivePcs == {ObjectivePc(o) : o \in OptimizerNames}

\* The calls of a run so far are its recorded trials and the call in
\* progress, never more than the budget; a run of random search that
\* returned made exactly its budget of calls and recorded each.
C12_CallsWithinBudget ==
  /\ \A o \in OptimizerNames :
       xgb_pc \in {LoopPc(o), ObjectivePc(o)} =>
         /\ xgb_cv.calls = Len(Self[TrialsAttribute(o)]) + Len(xgb_cv.in_progress)
         /\ xgb_cv.calls <= Self.max_evals
  /\ xgb_call.name = "random_search_tuning" =>
       /\ xgb_cv.calls = Self.max_evals
       /\ Len(Self.random_search_trials) = Self.max_evals
  /\ ctb_pc \in CtbLoopPcs \cup CtbObjectivePcs =>
       /\ ctb_cv.calls = Len(ctb_trials) + Len(ctb_cv.in_progress)
       /\ ctb_cv.calls <= MAX_EVALS
  /\ ctb_call = CtbReturned("train", "random_results") =>
       /\ ctb_cv.calls = MAX_EVALS
       /\ Len(ctb_trials) = MAX_EVALS

\* An invocation of an objective makes one call on its way in and none
\* afterwards, and a call that returns adds one trial record.
C12_OneCallPerInvocation ==
  /\ \A o \in OptimizerNames :
       /\ (xgb_pc = LoopPc(o) /\ xgb_pc' = ObjectivePc(o)) =>
            xgb_cv'.calls = xgb_cv.calls + 1
       /\ xgb_pc = ObjectivePc(o) =>
            /\ xgb_cv'.calls = xgb_cv.calls
            /\ xgb_pc' = LoopPc(o) =>
                 Len(Val(xgb')[TrialsAttribute(o)]) = Len(Self[TrialsAttribute(o)]) + 1
  /\ (ctb_pc \in CtbLoopPcs /\ ctb_pc' \in CtbObjectivePcs) =>
       ctb_cv'.calls = ctb_cv.calls + 1
  /\ ctb_pc \in CtbObjectivePcs =>
       /\ ctb_cv'.calls = ctb_cv.calls
       /\ ctb_pc' \in CtbLoopPcs => Len(ctb_trials') = Len(ctb_trials) + 1

\* C12: every optimisation run makes exactly its trial budget of
\* cross-validation calls, one trial record per call (max_evals calls of
\* cross_validation in random_search_tuning, MAX_EVALS calls of ctb_crossval
\* in random_space), each objective invocation makes exactly one call, and
\* the run ends.
C12_FixedTrialBudget ==
  /\ []C12_CallsWithinBudget
  /\ [][C12_OneCallPerInvocation]_vars
  /\ (xgb_pc \in XgbLoopPcs \cup XgbObjectivePcs) ~> (xgb_pc = "idle")
  /\ (ctb_pc \in CtbLoopPcs \cup CtbObjectivePcs) ~> (ctb_pc = "idle")

\* C12 witness: a random search of two trials returned after two calls of
\* cross_validation, none of them in progress.
C12_RandomSearchSpentBudget ==
  /\ xgb_call.name = "random_search_tuning"
  /\ Self.max_evals = 2
  /\ xgb_cv.calls = 2
  /\ xgb_cv.in_progress = <<>>
  /\ Len(Self.random_search_trials) = 2

\* At most one call of each instance is in progress, it is made by the
\* objective, and every earlier call of the run has its trial recorded.
C13_OneCallInProgress ==
  /\ Len(xgb_cv.in_progress) <= 1
  /\ Len(ctb_cv.in_progress) <= 1
  /\ \A o \in OptimizerNames :
       xgb_pc = ObjectivePc(o) =>
         /\ Len(xgb_cv.in_progress) = 1
         /\ Len(Self[TrialsAttribute(o)]) = xgb_cv.calls - 1
  /\ xgb_pc \notin XgbObjectivePcs => xgb_cv.in_progress = <<>>
  /\ ctb_pc \in CtbObjectivePcs =>
       /\ Len(ctb_cv.in_progress) = 1
       /\ Len(ctb_trials) = ctb_cv.calls - 1
  /\ ctb_pc \notin CtbObjectivePcs => ctb_cv.in_progress = <<>>

\* Parameters are passed to a call only when the previous call has
\* returned and its result is in the trial table.
C13_CallAfterPreviousRecorded ==
  /\ xgb_cv'.calls = xgb_cv.calls + 1 =>
       /\ xgb_cv.in_progress = <<>>
       /\ \A o \in OptimizerNames :
            xgb_pc = LoopPc(o) => Len(Self[TrialsAttribute(o)]) = xgb_cv.calls
  /\ ctb_cv'.calls = ctb_cv.calls + 1 =>
       /\ ctb_cv.in_progress = <<>>
       /\ Len(ctb_trials) = ctb_cv.calls

\* C13: trials are strictly sequential in every optimisation loop of both
\* classes: the cross-validation call of a trial has returned and its
\* result is recorded before the parameters of the next trial are passed,
\* and never are two calls of one instance in progress.
C13_TrialsSequential ==
  /\ []C13_OneCallInProgress
  /\ [][C13_CallAfterPreviousRecorded]_vars

\* C13 witness: the second trial of a Ctbclass run is inside ctb_crossval
\* and the first trial is recorded.
C13_SecondCallInProgress ==
  /\ ctb_pc \in CtbObjectivePcs
  /\ Len(ctb_cv.in_progress) = 1
  /\ ctb_cv.calls = 2
  /\ Len(ctb_trials) = 1

\* The dictionaries inside ctb_crossval, as the objective passed them.
PassedToCtbCrossval == {ctb_cv.in_progress[i] : i \in DOMAIN ctb_cv.in_progress}
BootstrapTypes == {"Bayesian", "Bernoulli"}
GrowPolicies == {"SymmetricTree", "Depthwise", "Lossguide"}

\* C14: the dictionary hyperopt_obj passes to ctb_crossval is flat:
\* 'bootstrap_type' and 'grow_policy' are plain strings,
\* 'bagging_temperature' is a key exactly when bootstrap_type is 'Bayesian'
\* and 'max_leaves' exactly when grow_policy is 'Lossguide'.
C14_HyperoptParamsFlat ==
  (ctb # None /\ Ctb.optimization_method = "hyperopt") =>
    \A params \in PassedToCtbCrossval :
      /\ params.bootstrap_type \in BootstrapTypes
      /\ params.grow_policy \in GrowPolicies
      /\ "bagging_temperature" \in DOMAIN params <=>
           params.bootstrap_type = "Bayesian"
      /\ "max_leaves" \in DOMAIN params <=> params.grow_policy = "Lossguide"

\* C14 witness: hyperopt_obj passed a dictionary with 'Bayesian' and
\* 'Lossguide' and both conditional keys at the top level.
C14_BayesianLossguidePassed ==
  /\ ctb # None
  /\ Ctb.optimization_method = "hyperopt"
  /\ \E params \in PassedToCtbCrossval :
       /\ params.bootstrap_type = "Bayesian"
       /\ params.grow_policy = "Lossguide"
       /\ {"bagging_temperature", "max_leaves"} \subseteq DOMAIN params

\* The dictionaries inside cross_validation, as the objective passed them.
PassedToCrossValidation == {xgb_cv.in_progress[i] : i \in DOMAIN xgb_cv.in_progress}
HasKeys(params, keys) == keys \subseteq DOMAIN params
HasNoneOf(params, keys) == keys \cap DOMAIN params = {}
DartKeys == {"sample_type", "normalize_type", "rate_drop", "skip_drop"}
GpuHistKeys == {"single_precision_histogram", "deterministic_histogram"}

\* C15: the dictionary every XGBoostModel optimiser passes to
\* cross_validation has 'grow_policy', 'booster' and 'tree_method' as plain
\* strings and each conditional key exactly when its choice is selected:
\* 'max_leaves' with lossguide; 'sample_type', 'normalize_type',
\* 'rate_drop', 'skip_drop' with dart; 'sketch_eps' with approx; 'max_bin'
\* with hist or gpu_hist; 'single_precision_histogram' and
\* 'deterministic_histogram' with gpu_hist.
C15_XgbParamsFlat ==
  \A params \in PassedToCrossValidation :
    /\ params.grow_policy \in {"depthwise", "lossguide"}
    /\ params.booster \in {"gbtree", "dart"}
    /\ params.tree_method \in {"auto", "exact", "approx", "hist", "gpu_hist"}
    /\ "max_leaves" \in DOMAIN params <=> params.grow_policy = "lossguide"
    /\ IF params.booster = "dart"
       THEN HasKeys(params, DartKeys) ELSE HasNoneOf(params, DartKeys)
    /\ "sketch_eps" \in DOMAIN params <=> params.tree_method = "approx"
    /\ "max_bin" \in DOMAIN params <=> params.tree_method \in {"hist", "gpu_hist"}
    /\ IF params.tree_method = "gpu_hist"
       THEN HasKeys(params, GpuHistKeys) ELSE HasNoneOf(params, GpuHistKeys)

\* C15 witness: hyperopt_objective passed a dictionary with approx, dart
\* and lossguide, each with its conditional keys at the top level.
C15_ApproxDartLossguidePassed ==
  /\ xgb_pc = "hyperopt_objective"
  /\ \E params \in PassedToCrossValidation :
       /\ params.tree_method = "approx"
       /\ params.booster = "dart"
       /\ params.grow_policy = "lossguide"
       /\ HasKeys(params, DartKeys \cup {"sketch_eps", "max_leaves"})

Prefix(a, b) == Len(a) <= Len(b) /\ a = SubSeq(b, 1, Len(a))

\* C16: two runs of random search on instances with the same seed, GPU and
\* max_evals, on the same data, pass the same sequence of dictionaries to
\* cross_validation, whatever use was made of random before each run.
C16_SeedReproducible ==
  \A i \in DOMAIN searches, j \in DOMAIN searches :
    (/\ searches[i].seed = searches[j].seed
     /\ searches[i].GPU = searches[j].GPU
     /\ searches[i].max_evals = searches[j].max_evals) =>
      /\ Prefix(searches[i].passed, searches[j].passed)
           \/ Prefix(searches[j].passed, searches[i].passed)
      /\ \A k \in DOMAIN searches[i].passed :
           searches[i].passed[k] \in search_spaces[searches[i].GPU].random_search

\* C16 witness: two completed runs of two trials with the same seed and
\* GPU flag, entered with the generator in different states, the trials
\* of a run differing from each other.
C16_TwoRunsSameSeed ==
  /\ Len(searches) = 2
  /\ searches[1].seed = searches[2].seed
  /\ searches[1].GPU = searches[2].GPU
  /\ searches[1].max_evals = 2 /\ searches[2].max_evals = 2
  /\ Len(searches[1].passed) = 2 /\ Len(searches[2].passed) = 2
  /\ searches[1].generator_before # searches[2].generator_before
  /\ searches[1].generator_before # random_seed(searches[1].seed)
  /\ searches[2].passed[1] # searches[2].passed[2]

\* C17: on a trained instance feature_importance fails exactly when
\* importance_type is outside the six supported values, with ValueError,
\* and completes for every supported type, 'shap' with a gbtree best model
\* included.
C17_FeatureImportanceFailsIffUnsupported ==
  [][\A t \in ImportanceTypes :
       (xgb # None /\ Self.trained /\ feature_importance(t)) =>
         xgb_call' = IF t \in SupportedImportanceTypes
                     THEN Returned("feature_importance")
                     ELSE Raised("feature_importance", "ValueError")]_vars

\* C17 without 'shap' on a gbtree model: an unsupported type raises
\* ValueError, a supported type other than 'shap' completes and every entry
\* of output carries its feature_importance, and 'shap' completes when no
\* best model is a gbtree.
C17_FeatureImportanceExceptShapGbtree ==
  [][\A t \in ImportanceTypes :
       (xgb # None /\ Self.trained /\ feature_importance(t)) =>
         LET out == Val(Self.output)
             gbtree == \E i \in DOMAIN out : Val(out[i].params).booster = "gbtree"
         IN /\ t \notin SupportedImportanceTypes =>
                 xgb_call' = Raised("feature_importance", "ValueError")
            /\ (t \in SupportedImportanceTypes /\ t # "shap") =>
                 /\ xgb_call' = Returned("feature_importance")
                 /\ \A i \in DOMAIN out :
                      "feature_importance" \in DOMAIN Val(Val(xgb').output)[i]
            /\ (t = "shap" /\ ~gbtree) =>
                 xgb_call' = Returned("feature_importance")]_vars

\* C17 witness: feature_importance('shap') on a trained instance with a
\* gbtree best model ended in AttributeError.
C17_ShapRaisedAttributeError ==
  /\ xgb # None
  /\ Self.trained
  /\ \E i \in DOMAIN Val(Self.output) : Val(Val(Self.output)[i].params).booster = "gbtree"
  /\ xgb_call = Raised("feature_importance", "AttributeError")

\* C18: with GPU False, every dictionary an optimiser of Ctbclass passes to
\* ctb_crossval with grow_policy 'Lossguide' has score_function 'L2'.
C18_CpuLossguideUsesL2 ==
  (ctb # None /\ Ctb.GPU = FALSE) =>
    \A params \in PassedToCtbCrossval :
      params.grow_policy = "Lossguide" => params.score_function = "L2"

\* C18 for hyperopt_obj and randomsrch_obj, which overwrite
\* score_function after the sample.
C18_CpuLossguideUsesL2ExceptOptuna ==
  (ctb # None /\ Ctb.GPU = FALSE /\ Ctb.optimization_method # "optuna") =>
    \A params \in PassedToCtbCrossval :
      params.grow_policy = "Lossguide" => params.score_function = "L2"

\* C18 witness: optuna_obj of a CPU instance passed 'Lossguide' with
\* score_function 'Cosine'.
C18_OptunaCpuLossguideCosine ==
  /\ ctb # None
  /\ Ctb.GPU = FALSE
  /\ Ctb.optimization_method = "optuna"
  /\ \E params \in PassedToCtbCrossval :
       params.grow_policy = "Lossguide" /\ params.score_function = "Cosine"

\* The dictionaries the run has passed to ctb_crossval so far, in order.
CtbPassedSoFar ==
  [i \in 1..Len(ctb_trials) |-> ctb_trials[i].params] \o ctb_cv.in_progress
SetsVerifier == ctb # None /\ Ctb.optimization_method \in {"hyperopt", "random_search"}

\* C19: with GPU True no trial of an optimiser of Ctbclass passes
\* 'Lossguide' together with score_function 'Cosine', and once a trial
\* sampled 'Lossguide' and set lossguide_verifier, no later trial of the
\* run samples 'Cosine'.
C19_GpuNoCosineWithLossguide ==
  (ctb # None /\ Ctb.GPU = TRUE) =>
    /\ \A i \in DOMAIN CtbPassedSoFar :
         ~(/\ CtbPassedSoFar[i].grow_policy = "Lossguide"
           /\ CtbPassedSoFar[i].score_function = "Cosine")
    /\ \A i \in DOMAIN CtbPassedSoFar, j \in DOMAIN CtbPassedSoFar :
         (/\ i < j
          /\ SetsVerifier
          /\ CtbPassedSoFar[i].grow_policy = "Lossguide") =>
           CtbPassedSoFar[j].score_function # "Cosine"

\* C19 for the runs of hyperopt and random search whose search space was
\* built with lossguide_verifier True: its score_function has no 'Cosine'
\* and no trial passes 'Cosine'.
C19_GpuNoCosineWhenSpaceExcludesIt ==
  (/\ ctb # None /\ Ctb.GPU = TRUE /\ SetsVerifier
   /\ LET space == IF Ctb.optimization_method = "hyperopt"
                    THEN H_SPACE ELSE PARAM_GRID
      IN \A k \in DOMAIN space.score_function :
           space.score_function[k] # "Cosine") =>
    \A i \in DOMAIN CtbPassedSoFar : CtbPassedSoFar[i].score_function # "Cosine"

\* C19 witness: in a hyperopt run on GPU the first trial sampled
\* 'Lossguide' and set lossguide_verifier, and the second trial is inside
\* ctb_crossval with 'Lossguide' and score_function 'Cosine'.
C19_CosineAfterLossguide ==
  /\ ctb # None
  /\ Ctb.GPU = TRUE
  /\ Ctb.optimization_method = "hyperopt"
  /\ Ctb.lossguide_verifier = TRUE
  /\ Len(ctb_trials) = 1
  /\ ctb_trials[1].params.grow_policy = "Lossguide"
  /\ \E params \in PassedToCtbCrossval :
       params.grow_policy = "Lossguide" /\ params.score_function = "Cosine"

\* The parameter names the three search spaces declare, and the keys the
\* objectives and the space updates may add.
DeclaredNames ==
  DOMAIN H_SPACE_declared \cup DOMAIN PARAM_GRID_declared
    \cup DOMAIN optuna_lists(FALSE)
AddedNames ==
  {"bagging_temperature", "max_leaves", "rsm", "random_strength", "thread_count"}

\* C20: the dictionary every optimiser of Ctbclass passes to ctb_crossval
\* has 'task_type' 'GPU' when GPU is True and 'CPU' when it is False, and
\* each of its keys is a declared search-space parameter or one of
\* bagging_temperature, max_leaves, rsm, random_strength, thread_count.
C20_TaskTypeAndKnownKeys ==
  ctb # None =>
    \A params \in PassedToCtbCrossval :
      /\ params.task_type = IF Ctb.GPU THEN "GPU" ELSE "CPU"
      /\ DOMAIN params \subseteq DeclaredNames \cup AddedNames

\* C20 but for the key 'taks_type', which hyperopt_obj adds on CPU and
\* nothing else adds.
C20_TaskTypeAndKnownKeysOrTaksType ==
  ctb # None =>
    \A params \in PassedToCtbCrossval :
      /\ params.task_type = IF Ctb.GPU THEN "GPU" ELSE "CPU"
      /\ DOMAIN params \subseteq DeclaredNames \cup AddedNames \cup {"taks_type"}
      /\ "taks_type" \in DOMAIN params <=>
           (Ctb.optimization_method = "hyperopt" /\ Ctb.GPU = FALSE)

\* C20 witness: hyperopt_obj of a CPU instance passed a dictionary with
\* the key 'taks_type' next to 'task_type'.
C20_HyperoptCpuPassedTaksType ==
  /\ ctb # None
  /\ Ctb.optimization_method = "hyperopt"
  /\ Ctb.GPU = FALSE
  /\ \E params \in PassedToCtbCrossval :
       /\ "taks_type" \in DOMAIN params
       /\ params.taks_type = "CPU"
       /\ params.task_type = "CPU"

\* C21: the dictionary every XGBoostModel optimiser passes to
\* cross_validation follows the GPU flag: with GPU True tree_method is
\* 'gpu_hist', sampling_method 'gradient_based' and predictor
\* 'gpu_predictor'; with GPU False tree_method is one of 'auto', 'exact',
\* 'approx', 'hist', sampling_method 'uniform' and predictor
\* 'cpu_predictor'.
C21_ParamsFollowGpuFlag ==
  \A params \in PassedToCrossValidation :
    IF Self.GPU
    THEN /\ params.tree_method = "gpu_hist"
         /\ params.sampling_method = "gradient_based"
         /\ params.predictor = "gpu_predictor"
    ELSE /\ params.tree_method \in {"auto", "exact", "approx", "hist"}
         /\ params.sampling_method = "uniform"
         /\ params.predictor = "cpu_predictor"

\* C21 witness: the random-search loop of a GPU instance passed a
\* dictionary with the three GPU values.
C21_RandomSearchGpuPassed ==
  /\ xgb_pc = "random_objective"
  /\ Self.GPU
  /\ \E params \in PassedToCrossValidation :
       /\ params.tree_method = "gpu_hist"
       /\ params.sampling_method = "gradient_based"
       /\ params.predictor = "gpu_predictor"

\* C22: ctb_crossval returns loss = 1 - (the maximum of the per-round mean
\* test AUC), which lies in [0, 1] when every AUC value does, and
\* n_estimators = the 1-based index of the first round attaining that
\* maximum, between 1 and the number of rounds returned.
C22_LossAndEstimators ==
  [][\A pick \in Picks, a \in TestAucMean :
       (ctb # None /\ ctb_crossval_call(pick, a)) =>
         LET r == ctb_call'.value
         IN /\ \A i \in DOMAIN a : r.loss <= AucScale - a[i]
            /\ \E i \in DOMAIN a : r.loss = AucScale - a[i]
            /\ 0 <= r.loss /\ r.loss <= AucScale
            /\ 1 <= r.n_estimators /\ r.n_estimators <= Len(a)
            /\ a[r.n_estimators] = AucScale - r.loss
            /\ \A i \in 1..(r.n_estimators - 1) : a[i] < a[r.n_estimators]
            /\ Val(ctb').estimator = Some(r.n_estimators)]_vars

\* C22 witness: ctb_crossval returned a positive loss below 1 and the
\* second round as n_estimators.
C22_CrossvalReturned ==
  /\ ctb_call.name = "ctb_crossval"
  /\ ctb_call.value.loss = 1
  /\ ctb_call.value.n_estimators = 2
====
